---- MODULE Spec2Model ----
(***************************************************************************)
(* BugSniffer: per-domain records of discovered JavaScript files.          *)
(*                                                                         *)
(* The background service worker (class BugSnifferBackground) merges       *)
(* content-script batches (handleSaveJsUrls) and network completions       *)
(* (saveJavaScriptFile) into chrome.storage.local, one record per domain.  *)
(* Every handler is asynchronous: it reads the record, computes the merged *)
(* record in one synchronous run, and writes it back; the read and the     *)
(* write are separate steps that other handlers may interleave with.       *)
(***************************************************************************)
EXTENDS Integers, Sequences, FiniteSets, TLC

(***************************************************************************)
(* Bounds of the model.                                                    *)
(***************************************************************************)
\* Date.now() takes the values 1..MaxTime.
MaxTime == 2
\* The retention cap of saveJavaScriptFile (maxFiles, 1000 in the source), scaled.
MaxFiles == 2
\* The retention cap of saveJSFile (100 in the source), scaled.
MaxFilesV1 == 2
\* The longest urls list of a SAVE_JS_URLS batch.
MaxBatch == 2
\* The longest bare URL array present in storage at start.
MaxLegacy == 2
\* The longest stream of single-file saves of SpecCap.
MaxStream == 3
\* The number of save timers a content script arms.
MaxTimers == 3
\* The longest string generateHash is called on.
MaxStr == 5

Domains == {"a.com"}
Urls == {"u1", "u2", "u3"}
Tabs == {1}
Procs == {"p1", "p2"}

\* The csp of a batch: getCSP returns null, or the content attribute (which
\* may be the empty string).
CspNull == "<null>"
CspValues == {CspNull, "", "policy-A", "policy-B"}
\* The csp key of a stored record when it was never set.
CspUndefined == "<undefined>"

(***************************************************************************)
(* Stored values.  kind is "absent" (no key), "array" (the legacy bare     *)
(* array of URL strings, in arr) or "object".  In an object, a timestamp   *)
(* of 0 stands for a missing timestamp (the code reads it as               *)
(* `timestamp || 0`), inlines = <<>> and sri = <<>> also stand for a       *)
(* missing key (read as `inlines || []`; sri is only ever stored           *)
(* non-empty), and a metadata field or lastCrawl of -1 for an undefined    *)
(* one.                                                                    *)
(***************************************************************************)
EmptyMetadata == [lastUpdated |-> -1, totalFiles |-> -1, totalInlines |-> -1]

Absent ==
  [kind |-> "absent", arr |-> <<>>, files |-> <<>>, inlines |-> <<>>,
   csp |-> CspUndefined, sri |-> <<>>, metadata |-> EmptyMetadata,
   lastCrawl |-> -1]

LegacyArray(urls) == [Absent EXCEPT !.kind = "array", !.arr = urls]

\* { files: [], inlines: [], metadata: {} }
EmptyRecord == [Absent EXCEPT !.kind = "object"]

\* A file entry of handleSaveJsUrls, of createFileInfo or of the legacy
\* upgrade: {url, timestamp, source}, no discoveredAt.
FileEntry(url, timestamp, source) ==
  [url |-> url, timestamp |-> timestamp, source |-> source, discoveredAt |-> 0]

\* The fileObj of storeJS: {url, discoveredAt, source, ...}, no timestamp.
FileObj(url, discoveredAt, source) ==
  [url |-> url, timestamp |-> 0, source |-> source, discoveredAt |-> discoveredAt]

InlineEntry(hash, data, timestamp) ==
  [hash |-> hash, data |-> data, timestamp |-> timestamp]

SriEntry(url, integrity) == [url |-> url, integrity |-> integrity]

Range(s) == {s[i] : i \in 1..Len(s)}

SeqsUpTo(S, n) == UNION {[1..k -> S] : k \in 0..n}

NoDup(s) == \A i, j \in 1..Len(s) : s[i] = s[j] => i = j

FileUrls(files) == [i \in 1..Len(files) |-> files[i].url]

InlineHashes(inlines) == [i \in 1..Len(inlines) |-> inlines[i].hash]

(***************************************************************************)
(* The merge of handleSaveJsUrls.                                          *)
(***************************************************************************)
\* domainData.files.some(file => (file.url || file) === url)
HasUrl(files, url) == \E i \in 1..Len(files) : files[i].url = url

\* AddUrl without the some() test.
AddUrlNoTest(files, url, t) ==
  Append(files, FileEntry(url, t, "content_script"))

\* AddUrl that assigns the list instead of pushing onto it.
AddUrlReplacing(files, url, t) ==
  IF HasUrl(files, url) THEN files
  ELSE <<FileEntry(url, t, "content_script")>>

\* One iteration of urls.forEach: push unless already present.
AddUrl(files, url, t) ==
  IF HasUrl(files, url) THEN files
  ELSE Append(files, FileEntry(url, t, "content_script"))

RECURSIVE AddUrls(_, _, _)
AddUrls(files, urls, t) ==
  IF urls = <<>> THEN files
  ELSE AddUrls(AddUrl(files, Head(urls), t), Tail(urls), t)

\* domainData.inlines.some(existing => existing.hash === inline.hash)
HasHash(inlines, hash) == \E i \in 1..Len(inlines) : inlines[i].hash = hash

\* AddInline without the some() test.
AddInlineNoTest(inlines, inline, t) ==
  Append(inlines, InlineEntry(inline.hash, inline.data, t))

\* AddInline that pushes only onto an empty list.
AddInlineFirstOnly(inlines, inline, t) ==
  IF inlines # <<>> THEN inlines
  ELSE Append(inlines, InlineEntry(inline.hash, inline.data, t))

\* AddInline that never pushes.
AddInlineSkipping(inlines, inline, t) == inlines

\* One iteration of inlines.forEach: push {...inline, timestamp} unless present.
AddInline(inlines, inline, t) ==
  IF HasHash(inlines, inline.hash) THEN inlines
  ELSE Append(inlines, InlineEntry(inline.hash, inline.data, t))

RECURSIVE AddInlines(_, _, _)
AddInlines(inlines, batch, t) ==
  IF batch = <<>> THEN inlines
  ELSE AddInlines(AddInline(inlines, Head(batch), t), Tail(batch), t)

\* MergeCsp keeping the first csp stored.
MergeCspFirstWins(stored, csp) ==
  IF stored = CspUndefined /\ csp # CspNull /\ csp # "" THEN csp ELSE stored

\* if (csp) domainData.csp = csp: null and "" are both falsy.
MergeCsp(stored, csp) ==
  IF csp # CspNull /\ csp # "" THEN csp ELSE stored

\* if (sri && sri.length > 0) domainData.sri = sri
MergeSri(stored, sri) == IF Len(sri) > 0 THEN sri ELSE stored

\* EnsureNewFormat taking a bare array for no record.
EnsureNewFormatNoUpgrade(value) ==
  IF value.kind = "object" THEN value ELSE EmptyRecord

\* EnsureNewFormat that starts every merge from an empty record.
EnsureNewFormatEmpty(value) == EmptyRecord

\* existingData[domain] || {files: [], inlines: [], metadata: {}}, and the
\* upgrade of a bare array to {files: [{url, source: 'legacy'}], ...}.
EnsureNewFormat(value) ==
  CASE value.kind = "absent" -> EmptyRecord
    [] value.kind = "array" ->
         [EmptyRecord EXCEPT
            !.files = [i \in 1..Len(value.arr) |->
                         FileEntry(value.arr[i], 0, "legacy")]]
    [] OTHER -> value

\* The record handleSaveJsUrls writes for message msg, read value `value`,
\* Date.now() = t.
HandleSaveJsUrlsMerge(value, msg, t) ==
  LET d0 == EnsureNewFormat(value)
      files == AddUrls(d0.files, msg.urls, t)
      inlines == AddInlines(d0.inlines, msg.inlines, t)
  IN  [d0 EXCEPT
         !.files = files,
         !.inlines = inlines,
         !.csp = MergeCsp(d0.csp, msg.csp),
         !.sri = MergeSri(d0.sri, msg.sri),
         !.metadata = [d0.metadata EXCEPT
                         !.lastUpdated = t,
                         !.totalFiles = Len(files),
                         !.totalInlines = Len(inlines)]]

(***************************************************************************)
(* The merge of saveJavaScriptFile.                                        *)
(***************************************************************************)
\* (b.timestamp || 0)
Ts(e) == e.timestamp

\* Insert e into the descending list s after every entry that does not sort
\* after it: Array.prototype.sort is stable.
RECURSIVE InsertDesc(_, _)
InsertDesc(s, e) ==
  IF s = <<>> THEN <<e>>
  ELSE IF Ts(Head(s)) >= Ts(e) THEN <<Head(s)>> \o InsertDesc(Tail(s), e)
  ELSE <<e>> \o s

\* files.sort((a, b) => (b.timestamp || 0) - (a.timestamp || 0))
RECURSIVE SortByTimestampDesc(_)
SortByTimestampDesc(files) ==
  IF files = <<>> THEN <<>>
  ELSE InsertDesc(SortByTimestampDesc(SubSeq(files, 1, Len(files) - 1)),
                  files[Len(files)])

\* LimitFiles without the sort: the first maxFiles entries are kept.
LimitFilesUnsorted(files) ==
  IF Len(files) > MaxFiles THEN SubSeq(files, 1, MaxFiles) ELSE files

\* if (files.length > maxFiles) files = files.sort(...).slice(0, maxFiles)
LimitFiles(files) ==
  IF Len(files) > MaxFiles
  THEN SubSeq(SortByTimestampDesc(files), 1, MaxFiles)
  ELSE files

\* domainData.files.filter(file => (file.url || file) !== fileInfo.url)
RemoveUrl(files, url) == SelectSeq(files, LAMBDA f : f.url # url)

\* The record saveJavaScriptFile writes for fileInfo, read value `value`,
\* Date.now() = t.  totalFiles is taken before the list is limited.
SaveJavaScriptFileMerge(value, fileInfo, t) ==
  LET d0 == EnsureNewFormat(value)
      pushed == Append(RemoveUrl(d0.files, fileInfo.url), fileInfo)
  IN  [d0 EXCEPT
         !.files = LimitFiles(pushed),
         !.metadata = [d0.metadata EXCEPT
                         !.lastUpdated = t,
                         !.totalFiles = Len(pushed)]]

(***************************************************************************)
(* background.js: storeJS and saveJSFile.                                  *)
(***************************************************************************)
\* if (entry.files.length > 100) entry.files = entry.files.slice(-100)
LimitFilesV1(files) ==
  IF Len(files) > MaxFilesV1
  THEN SubSeq(files, Len(files) - MaxFilesV1 + 1, Len(files))
  ELSE files

\* The entry the get callback of saveJSFile writes for fileObj, read value
\* `value` (absent or an object), Date.now() = t.
SaveJSFileMerge(value, fileObj, t) ==
  LET entry == IF value.kind = "absent" THEN EmptyRecord ELSE value
  IN  [entry EXCEPT
         !.files = LimitFilesV1(Append(RemoveUrl(entry.files, fileObj.url), fileObj)),
         !.lastCrawl = t]

(***************************************************************************)
(* State.                                                                  *)
(***************************************************************************)
VARIABLES
  storage,   \* chrome.storage.local: domain -> stored value
  now,       \* Date.now()
  pc,        \* per handler invocation: "idle", "get" (read issued), "set" (write issued)
  req,       \* per handler invocation: its arguments
  local,     \* per handler invocation: domainData, the record it is about to write
  build,     \* the scripts installed: "class" (BugSnifferBackground and BugSnifferContentScript), "v1" (background.js and content.js) or "readme" (the content.js of README-REFACTOR.md)
  tabJSFiles,    \* background.js: Map tabId -> Set<url>
  globalJSFiles, \* background.js: Map domain -> Set<url>
  stream,    \* history: per domain, the URLs of the single-file saves begun so far
  csPc,      \* content script: "start", "running" (initialised) or "off" (not enabled)
  csUrls,    \* content script: the Set urls, in insertion order
  saveTimer, \* content script: the timer id scheduleSave kept last, 0 for none
  timers,    \* the page's save timers by id: "pending", "cancelled" or "fired"
  observer,  \* content script: its MutationObserver is observing
  dom,       \* the src attributes of the script elements of the document
  load,      \* the class script's load hook: "none", "listening", "timer" or "done"
  runtime,   \* chrome.runtime.sendMessage is available to the page
  outbox,    \* the messages passed to chrome.runtime.sendMessage and not yet handled
  csInlines, \* content script: the array inlines
  domInlines,\* the text of the script elements of the document that have no src
  destroyed, \* history: destroy() has run on the content script
  bugsniffer_enabled, \* chrome.storage.local: the value of bugsniffer_enabled is not false
  storageOk, \* chrome.storage.local accepts writes (it is available and within quota)
  response,  \* per handler invocation: what it passed to sendResponse
  race,      \* history: which merges were overtaken by another write
  classified,\* the last call of isJavaScriptLike / isJavaScriptRequest and its result
  hashed,    \* the last call of generateHash: its argument and its result
  event      \* the last webNavigation.onCommitted or tabs.onRemoved event delivered

\* What the content script leaves alone, and the content script's own state.
csvars ==
  <<csPc, csUrls, saveTimer, timers, observer, dom, load, runtime, outbox,
    csInlines, domInlines, destroyed>>

vars ==
  <<storage, now, pc, req, local, build, tabJSFiles, globalJSFiles, stream,
    csPc, csUrls, saveTimer, timers, observer, dom, load, runtime, outbox,
    csInlines, domInlines, destroyed,
    bugsniffer_enabled, storageOk, response, race, classified, hashed, event>>

\* What the handlers leave alone: the flag and the state of the store.
envvars == <<bugsniffer_enabled, storageOk>>

bgvars ==
  <<storage, now, pc, req, local, build, tabJSFiles, globalJSFiles, stream,
    bugsniffer_enabled, storageOk, response, race, classified, hashed, event>>

\* What the handlers of BugSnifferBackground leave alone.
v1vars == <<build, tabJSFiles, globalJSFiles>>

NoReq ==
  [type |-> "none", domain |-> "", urls |-> <<>>, inlines |-> <<>>,
   csp |-> CspNull, sri |-> <<>>, fileInfo |-> FileEntry("", 0, "")]

\* A SAVE_JS_URLS message of the content script.
SaveMsg(domain, urls, inlines, csp, sri) ==
  [NoReq EXCEPT !.type = "SAVE_JS_URLS", !.domain = domain, !.urls = urls,
                !.inlines = inlines, !.csp = csp, !.sri = sri]

\* A call saveJavaScriptFile(domain, fileInfo).
FileReq(domain, fileInfo) ==
  [NoReq EXCEPT !.type = "saveJavaScriptFile", !.domain = domain,
                !.fileInfo = fileInfo]

\* Stored values at start: nothing, or a bare URL array left by the earlier
\* SAVE_JS_URLS listener (Array.from(new Set(...)): duplicate-free).
InitialValues(U) ==
  {Absent} \cup
  {LegacyArray(a) : a \in {s \in SeqsUpTo(U, MaxLegacy) : Len(s) > 0 /\ NoDup(s)}}

\* An empty Map.
EmptyMap == [x \in {} |-> {}]

\* sendResponse has not been called; sendResponse({success: ok}).
NoResponse == [sent |-> FALSE, success |-> FALSE]

Response(ok) == [sent |-> TRUE, success |-> ok]

\* The catch-callbacks and the default case of handleMessage, mutated:
\* they answer {success: true}.
ErrorResponseSucceeds(error) ==
  [sent |-> TRUE, success |-> TRUE, error |-> error]

\* sendResponse({success: false, error: error.message})
ErrorResponse(error) == [sent |-> TRUE, success |-> FALSE, error |-> error]

\* sendResponse({success: true, data})
DataResponse(data) == [sent |-> TRUE, success |-> TRUE, data |-> data]

\* sendResponse(): the sender's callback gets undefined.
UndefinedResponse == [sent |-> TRUE, success |-> FALSE, undefined |-> TRUE]

\* sendResponse({success: true, files, count: files.length, domain})
FilesResponse(domain, files) ==
  [sent |-> TRUE, success |-> TRUE, files |-> files, count |-> Len(files),
   domain |-> domain]

\* A call of sendResponse: the first call of a message is delivered to the
\* sender, and a later call for the same message is dropped.
SendResponse(sentBefore, value) ==
  IF sentBefore.sent THEN sentBefore ELSE value

\* No merge has read the record yet and no write has dropped a URL.
NoRace == [status |-> [p \in Procs |-> "none"], lost |-> FALSE, remerged |-> {}]

\* Neither classifier has been called.
NoCall ==
  [fn |-> "none",
   url |-> [protocol |-> "", pathname |-> <<>>, searchParams |-> {},
            hash |-> <<>>],
   result |-> FALSE]

\* No navigation commit and no tab removal has been delivered.
NoEvent == [type |-> "none", tabId |-> 0, frameId |-> 0]

\* generateHash has not been called.
NoHash == [called |-> FALSE, str |-> <<>>, result |-> <<0, 0>>]

ProcsIdle ==
  /\ now = 1
  /\ pc = [p \in Procs |-> "idle"]
  /\ req = [p \in Procs |-> NoReq]
  /\ local = [p \in Procs |-> Absent]
  /\ tabJSFiles = EmptyMap
  /\ globalJSFiles = EmptyMap
  /\ stream = [d \in Domains |-> <<>>]
  /\ bugsniffer_enabled = TRUE
  /\ storageOk = TRUE
  /\ response = [p \in Procs |-> NoResponse]
  /\ race = NoRace
  /\ classified = NoCall
  /\ hashed = NoHash
  /\ event = NoEvent

\* The installed background script is the class BugSnifferBackground.
ClassBuild == build = "class"

\* A content script that has just been injected into a document whose
\* script elements have their src in one of srcs and their text in one of
\* bodies.
ContentScriptStart(srcs, bodies) ==
  /\ csPc = "start"
  /\ csUrls = <<>>
  /\ csInlines = <<>>
  /\ domInlines \in bodies
  /\ destroyed = FALSE
  /\ saveTimer = 0
  /\ timers = <<>>
  /\ observer = FALSE
  /\ dom \in srcs
  /\ load = "none"
  /\ runtime = TRUE
  /\ outbox = <<>>

\* A document with no script element.
NoPage == ContentScriptStart({{}}, {{}})

\* Time passes, up to `limit`.
TickUpTo(limit) ==
  /\ now < limit
  /\ now' = now + 1
  /\ UNCHANGED <<storage, pc, req, local, v1vars, stream, csvars>>
  /\ UNCHANGED <<envvars, response, race, classified, hashed, event>>

Tick == TickUpTo(MaxTime)

\* chrome.storage.local.set(data, callback): the data is stored unless the
\* store refuses the write; the callback runs in both cases.
StorageSet(store, key, value) ==
  IF storageOk THEN [store EXCEPT ![key] = value] ELSE store

\* handleMessage, case SAVE_JS_URLS, as the background sees it:
\* handleSaveJsUrls throws for a missing domain, and the catch-callback
\* sends {success: false}; else it starts and awaits
\* getStorageData([domain]).
SaveJsUrlsBegins(p, msg) ==
  /\ build = "class"
  /\ pc[p] = "idle"
  /\ IF msg.domain = ""
     THEN /\ response' = [response EXCEPT
                            ![p] = ErrorResponse("Domain is required")]
          /\ UNCHANGED <<pc, req>>
     ELSE /\ pc' = [pc EXCEPT ![p] = "get"]
          /\ req' = [req EXCEPT ![p] = msg]
          /\ response' = [response EXCEPT ![p] = NoResponse]
  /\ UNCHANGED <<storage, now, local>>
  /\ UNCHANGED <<v1vars, stream, envvars>>

\* A SAVE_JS_URLS message from some page arrives.
HandleSaveJsUrlsBegin(p, msg) ==
  /\ SaveJsUrlsBegins(p, msg)
  /\ UNCHANGED <<csvars, race, classified, hashed, event>>

\* The read completes; the merge runs to the await of setStorageData.
SaveJsUrlsReads(p) ==
  /\ pc[p] = "get"
  /\ req[p].type = "SAVE_JS_URLS"
  /\ local' = [local EXCEPT
                 ![p] = HandleSaveJsUrlsMerge(storage[req[p].domain], req[p], now)]
  /\ pc' = [pc EXCEPT ![p] = "set"]
  /\ UNCHANGED <<storage, now, req>>
  /\ UNCHANGED <<v1vars, stream, csvars, envvars, response>>

HandleSaveJsUrlsRead(p) ==
  /\ SaveJsUrlsReads(p)
  /\ UNCHANGED <<race, classified, hashed, event>>

\* chrome.storage.local.set({[domain]: domainData}) completes, setStorageData
\* resolves, and handleMessage's then-callback sends {success: true}.
SaveJsUrlsWrites(p) ==
  /\ pc[p] = "set"
  /\ req[p].type = "SAVE_JS_URLS"
  /\ storage' = StorageSet(storage, req[p].domain, local[p])
  /\ pc' = [pc EXCEPT ![p] = "idle"]
  /\ req' = [req EXCEPT ![p] = NoReq]
  /\ local' = [local EXCEPT ![p] = Absent]
  /\ response' = [response EXCEPT ![p] = Response(TRUE)]
  /\ UNCHANGED now
  /\ UNCHANGED <<v1vars, stream, csvars, envvars>>

HandleSaveJsUrlsWrite(p) ==
  /\ SaveJsUrlsWrites(p)
  /\ UNCHANGED <<race, classified, hashed, event>>

\* handleWebRequest resumes from getExtensionEnabledState: if not enabled
\* it returns; else createFileInfo stamps the file with Date.now(), and
\* saveJavaScriptFile starts and awaits getStorageData([domain]).
WebRequestArrives(p, domain, url) ==
  /\ build = "class"
  /\ bugsniffer_enabled
  /\ pc[p] = "idle"
  /\ pc' = [pc EXCEPT ![p] = "get"]
  /\ req' = [req EXCEPT ![p] = FileReq(domain, FileEntry(url, now, "network"))]
  /\ response' = [response EXCEPT ![p] = NoResponse]
  /\ UNCHANGED <<storage, now, local, v1vars>>
  /\ UNCHANGED <<envvars, race, classified, hashed, event>>

HandleWebRequest(p, domain, url) ==
  /\ WebRequestArrives(p, domain, url)
  /\ UNCHANGED <<stream, csvars>>

\* The read completes; the merge runs to the await of setStorageData.
SaveJavaScriptFileRead(p) ==
  /\ pc[p] = "get"
  /\ req[p].type = "saveJavaScriptFile"
  /\ local' = [local EXCEPT
                 ![p] = SaveJavaScriptFileMerge(storage[req[p].domain],
                                                req[p].fileInfo, now)]
  /\ pc' = [pc EXCEPT ![p] = "set"]
  /\ UNCHANGED <<storage, now, req>>
  /\ UNCHANGED <<v1vars, stream, csvars>>
  /\ UNCHANGED <<envvars, response, race, classified, hashed, event>>

\* chrome.storage.local.set({[domain]: domainData}) completes.
SaveJavaScriptFileWrite(p) ==
  /\ pc[p] = "set"
  /\ req[p].type = "saveJavaScriptFile"
  /\ storage' = StorageSet(storage, req[p].domain, local[p])
  /\ pc' = [pc EXCEPT ![p] = "idle"]
  /\ req' = [req EXCEPT ![p] = NoReq]
  /\ local' = [local EXCEPT ![p] = Absent]
  /\ UNCHANGED now
  /\ UNCHANGED <<v1vars, stream, csvars>>
  /\ UNCHANGED <<envvars, response, race, classified, hashed, event>>

(***************************************************************************)
(* background.js.                                                          *)
(***************************************************************************)
\* getDomain(url): every URL of the model is on the one domain.
GetDomain(url) == CHOOSE d \in Domains : TRUE

\* The checks at the head of storeJS: the URL starts with "http", holds none
\* of "data:", "javascript:" and "chrome-extension:", and getDomain parses it.
StoreJSAccepts(url) == url \in Urls \cup {"page.css"}

\* map.get(key), with the empty set for a key the Map does not have.
MapGet(map, key) == IF key \in DOMAIN map THEN map[key] ELSE {}

\* if (!map.has(key)) map.set(key, new Set()); map.get(key).add(url)
MapAdd(map, key, url) ==
  [k \in DOMAIN map \cup {key} |->
     IF k = key THEN MapGet(map, key) \cup {url} ELSE map[k]]

\* A call saveJSFile(domain, fileObj).
FileObjReq(domain, fileObj) ==
  [NoReq EXCEPT !.type = "saveJSFile", !.domain = domain, !.fileInfo = fileObj]

\* storeJS(url, tabId, source) for an http(s) URL: both caches take the
\* URL; if the domain had not seen it, saveJSFile issues its storage read.
StoreJSRuns(p, url, tabId, source) ==
  LET domain == GetDomain(url)
      wasNew == url \notin MapGet(globalJSFiles, domain)
  IN  /\ build = "v1"
      /\ StoreJSAccepts(url)
      /\ tabJSFiles' = MapAdd(tabJSFiles, tabId, url)
      /\ globalJSFiles' = MapAdd(globalJSFiles, domain, url)
      /\ IF wasNew
         THEN /\ pc[p] = "idle"
              /\ pc' = [pc EXCEPT ![p] = "get"]
              /\ req' = [req EXCEPT
                           ![p] = FileObjReq(domain, FileObj(url, now, source))]
         ELSE UNCHANGED <<pc, req>>
      /\ UNCHANGED <<storage, now, local, build>>
      /\ UNCHANGED <<envvars, response, race, classified, hashed, event>>

StoreJS(p, url, tabId, source) ==
  /\ StoreJSRuns(p, url, tabId, source)
  /\ UNCHANGED <<stream, csvars>>

\* The get callback of saveJSFile: it computes the entry and issues the
\* write.  On a bare array, entry.files is undefined and filter throws: the
\* callback ends and nothing is written.
SaveJSFileGet(p) ==
  /\ pc[p] = "get"
  /\ req[p].type = "saveJSFile"
  /\ IF storage[req[p].domain].kind = "array"
     THEN /\ pc' = [pc EXCEPT ![p] = "idle"]
          /\ req' = [req EXCEPT ![p] = NoReq]
          /\ UNCHANGED local
     ELSE /\ pc' = [pc EXCEPT ![p] = "set"]
          /\ local' = [local EXCEPT
                          ![p] = SaveJSFileMerge(storage[req[p].domain],
                                                 req[p].fileInfo, now)]
          /\ UNCHANGED req
  /\ UNCHANGED <<storage, now, v1vars, stream, csvars>>
  /\ UNCHANGED <<envvars, response, race, classified, hashed, event>>

\* chrome.storage.local.set({[domain]: entry}) is applied.
SaveJSFileSet(p) ==
  /\ pc[p] = "set"
  /\ req[p].type = "saveJSFile"
  /\ storage' = StorageSet(storage, req[p].domain, local[p])
  /\ pc' = [pc EXCEPT ![p] = "idle"]
  /\ req' = [req EXCEPT ![p] = NoReq]
  /\ local' = [local EXCEPT ![p] = Absent]
  /\ UNCHANGED <<now, v1vars, stream, csvars>>
  /\ UNCHANGED <<envvars, response, race, classified, hashed, event>>

\* The entries a content script puts in the inlines of a batch; the first
\* two are different bodies with one fingerprint.
InlineInputs ==
  {[hash |-> "h1", data |-> "s1"], [hash |-> "h1", data |-> "s2"],
   [hash |-> "h2", data |-> "s1"]}

\* One step of the background service worker, with handler invocations P and
\* SAVE_JS_URLS messages B; in Step, also network completions for the URLs U.
MessageStep(P, B) ==
  \/ Tick
  \/ \E p \in P, msg \in B : HandleSaveJsUrlsBegin(p, msg)
  \/ \E p \in P : HandleSaveJsUrlsRead(p)
  \/ \E p \in P : HandleSaveJsUrlsWrite(p)

Step(P, B, U) ==
  \/ MessageStep(P, B)
  \/ \E p \in P, d \in Domains, u \in U : HandleWebRequest(p, d, u)
  \/ \E p \in P : SaveJavaScriptFileRead(p)
  \/ \E p \in P : SaveJavaScriptFileWrite(p)

(***************************************************************************)
(* Spec: two handler invocations at a time, interleaved at their awaits,   *)
(* merging URL batches and network completions.                            *)
(***************************************************************************)
ConcUrls == {"u1", "u2"}

ConcBatches ==
  {SaveMsg(d, u, <<>>, CspNull, <<>>) :
     d \in Domains, u \in {<<>>} \cup {<<x>> : x \in ConcUrls}}

\* Nothing stored, or the bare array an earlier version left.
ConcInit ==
  /\ storage \in [Domains -> {Absent, LegacyArray(<<"u3">>)}]
  /\ ProcsIdle
  /\ ClassBuild
  /\ NoPage

Next == Step(Procs, ConcBatches, ConcUrls)

Spec == ConcInit /\ [][Next]_vars

(***************************************************************************)
(* SpecInlines: two handler invocations at a time, merging batches of      *)
(* inline scripts.                                                         *)
(***************************************************************************)
InlineBatches ==
  {SaveMsg(d, <<>>, i, CspNull, <<>>) :
     d \in Domains, i \in {<<>>} \cup {<<x>> : x \in InlineInputs}}

InlinesInit ==
  /\ storage = [d \in Domains |-> Absent]
  /\ ProcsIdle
  /\ ClassBuild
  /\ NoPage

NextInlines == MessageStep(Procs, InlineBatches)

SpecInlines == InlinesInit /\ [][NextInlines]_vars

(***************************************************************************)
(* SpecSeq: one handler invocation at a time (no interleaving), merging    *)
(* URL batches and network completions over a record that may start as a   *)
(* bare array.                                                             *)
(***************************************************************************)
SeqBatches ==
  {SaveMsg(d, u, <<>>, CspNull, <<>>) :
     d \in Domains, u \in SeqsUpTo(Urls, MaxBatch)}

SeqInit ==
  /\ storage \in [Domains -> InitialValues(Urls)]
  /\ ProcsIdle
  /\ ClassBuild
  /\ NoPage

NextSeq == Step({"p1"}, SeqBatches, Urls)

SpecSeq == SeqInit /\ [][NextSeq]_vars

(***************************************************************************)
(* SpecBatch: one SAVE_JS_URLS message at a time, carrying urls, inlines,  *)
(* csp and sri together.                                                   *)
(***************************************************************************)
SriInputs == {SriEntry("u1", "sha256-x"), SriEntry("u2", "sha384-y")}

WholeBatches ==
  {SaveMsg(d, u, i, c, s) :
     d \in Domains, u \in SeqsUpTo(ConcUrls, MaxBatch),
     i \in {<<>>} \cup {<<x>> : x \in InlineInputs},
     c \in {"policy-A"},
     s \in {<<>>} \cup {<<x>> : x \in SriInputs}}

NextBatch == MessageStep({"p1"}, WholeBatches)

SpecBatch == InlinesInit /\ [][NextBatch]_vars

(***************************************************************************)
(* SpecSecurity: one handler invocation at a time, merging the csp and sri *)
(* of batches; network completions in between.                             *)
(***************************************************************************)
SecurityBatches ==
  {SaveMsg(d, u, <<>>, c, s) :
     d \in Domains, u \in {<<>>, <<"u1">>}, c \in CspValues,
     s \in {x \in SeqsUpTo(SriInputs, Cardinality(SriInputs)) : NoDup(x)}}

NextSecurity == Step({"p1"}, SecurityBatches, {"u2"})

SpecSecurity == InlinesInit /\ [][NextSecurity]_vars

(***************************************************************************)
(* SpecCap: from an empty record, a stream of single-file saves, one at a  *)
(* time, of distinct URLs with strictly increasing timestamps, by          *)
(* saveJavaScriptFile (build "class") or by saveJSFile (build "v1").       *)
(***************************************************************************)
CapUrls == {"u1", "u2", "u3", "u4"}

CapInit ==
  /\ storage = [d \in Domains |-> Absent]
  /\ ProcsIdle
  /\ build \in {"class", "v1"}
  /\ NoPage

\* The next save of the stream: a URL not saved before, stamped later than
\* the save before it.
StreamAllows(d, url) ==
  /\ Len(stream[d]) < MaxStream
  /\ \A i \in 1..Len(stream[d]) : stream[d][i].url # url /\ stream[d][i].at < now

StreamTakes(d, url) ==
  /\ stream' = [stream EXCEPT ![d] = Append(@, [url |-> url, at |-> now])]
  /\ UNCHANGED csvars

StreamWebRequest(p, d, url) ==
  /\ StreamAllows(d, url)
  /\ WebRequestArrives(p, d, url)
  /\ StreamTakes(d, url)

StreamStoreJS(p, url, tabId) ==
  /\ StreamAllows(GetDomain(url), url)
  /\ StoreJSRuns(p, url, tabId, "network")
  /\ StreamTakes(GetDomain(url), url)

NextCap ==
  \/ TickUpTo(MaxStream)
  \/ \E d \in Domains, u \in CapUrls : StreamWebRequest("p1", d, u)
  \/ SaveJavaScriptFileRead("p1")
  \/ SaveJavaScriptFileWrite("p1")
  \/ \E u \in CapUrls, t \in Tabs : StreamStoreJS("p1", u, t)
  \/ SaveJSFileGet("p1")
  \/ SaveJSFileSet("p1")

SpecCap == CapInit /\ [][NextCap]_vars

(***************************************************************************)
(* The content scripts: BugSnifferContentScript with the class background  *)
(* (build "class"), content.js with background.js (build "v1").            *)
(***************************************************************************)
\* The src attributes a script element of the page can have, all absolute
\* http URLs of the page's own host; page.css is the one that is not
\* JavaScript-like.
PageSrcs == {"u1", "u2", "page.css"}

\* Document order of the script elements.
DocOrder ==
  <<"u1", "u2", "page.css", "a.js", "javascript:x.js", "data:,x.js",
    "chrome-extension://id/a.js", "http://[">>

\* Other values a src or href attribute can have: a relative reference to
\* u1, URLs that are not http(s), and a string that does not parse.
SchemeSrcs ==
  {"a.js", "javascript:x.js", "data:,x.js", "chrome-extension://id/a.js",
   "http://["}

\* window.location.hostname
PageDomain == CHOOSE d \in Domains : TRUE

\* A parsed URL: the characters of its pathname, the names of its search
\* parameters, and the characters of its fragment.
UrlObj(pathname, params, hash) ==
  [protocol |-> "https:", pathname |-> pathname, searchParams |-> params,
   hash |-> hash]

\* A parsed URL of another scheme.
SchemeUrl(protocol, pathname) ==
  [UrlObj(pathname, {}, <<>>) EXCEPT !.protocol = protocol]

\* The pathnames of the model, as character sequences.
UrlPaths ==
  {<<"/", "a", ".", "j", "s">>,
   <<"/", "a", ".", "m", "j", "s">>,
   <<"/", "A", ".", "J", "S">>,
   <<"/", "a", ".", "M", "J", "S">>,
   <<"/", "d", "a", "t", "a", ".", "j", "s", "o", "n">>,
   <<"/", "a", ".", "j", "s", "/", "i", "m", "g", ".", "p", "n", "g">>,
   <<"/", "p", "a", "g", "e", ".", "c", "s", "s">>,
   <<"/", "a", ".", "j", "s", "x">>,
   <<"/", "j", "s">>,
   <<"/", "m", "j", "s">>,
   <<"/", "a", ".", "m", "s">>,
   <<"/">>}

\* The names a search parameter of the model can have.
ParamNames == {"jsModule", "module", "jsmodule", "v"}

\* The fragments of the model: none, or "#.js".
UrlHashes == {<<>>, <<"#", ".", "j", "s">>}

\* Every URL of the model.
ModelUrls ==
  {UrlObj(path, params, hash) :
     path \in UrlPaths, params \in SUBSET ParamNames, hash \in UrlHashes}

\* new URL(url, window.location.href) for the URLs the pages of the model
\* name: script files of the page's host, and its style sheet.
ParseUrl(url) ==
  CASE url = "u1" -> UrlObj(<<"/", "a", ".", "j", "s">>, {}, <<>>)
    [] url = "u2" -> UrlObj(<<"/", "b", ".", "m", "j", "s">>, {}, <<>>)
    [] url = "u3" -> UrlObj(<<"/", "c", ".", "j", "s">>, {"v"}, <<>>)
    [] url = "javascript:x.js" -> SchemeUrl("javascript:", <<"x", ".", "j", "s">>)
    [] url = "data:,x.js" -> SchemeUrl("data:", <<",", "x", ".", "j", "s">>)
    [] url = "chrome-extension://id/a.js" ->
         SchemeUrl("chrome-extension:", <<"/", "a", ".", "j", "s">>)
    [] OTHER -> UrlObj(<<"/", "p", "a", "g", "e", ".", "c", "s", "s">>, {}, <<>>)

\* String.prototype.toLowerCase on the characters of the model.
ToLowerChar(c) ==
  CASE c = "A" -> "a"
    [] c = "J" -> "j"
    [] c = "M" -> "m"
    [] c = "S" -> "s"
    [] OTHER -> c

ToLowerCase(str) == [i \in 1..Len(str) |-> ToLowerChar(str[i])]

\* str.endsWith(suffix)
EndsWith(str, suffix) ==
  /\ Len(suffix) <= Len(str)
  /\ SubSeq(str, Len(str) - Len(suffix) + 1, Len(str)) = suffix

\* str.includes(part)
Includes(str, part) ==
  \E i \in 1..(Len(str) - Len(part) + 1) :
    SubSeq(str, i, i + Len(part) - 1) = part

\* /\.(m?js)$/i.test(pathname), and /\.(m?js)([?#].*)?$/i.test(pathname): a
\* pathname holds neither "?" nor "#".
TestJsSuffix(pathname) ==
  LET lower == ToLowerCase(pathname)
  IN  EndsWith(lower, <<".", "j", "s">>) \/ EndsWith(lower, <<".", "m", "j", "s">>)

\* isJavaScriptLike(url), for a URL that parses.
IsJavaScriptLike(urlObj) ==
  LET pathname == ToLowerCase(urlObj.pathname)
  IN  \/ TestJsSuffix(pathname)
      \/ Includes(pathname, <<".", "j", "s">>)
      \/ "jsModule" \in urlObj.searchParams
      \/ "module" \in urlObj.searchParams

\* isJavaScriptRequest(url) of the background, for a URL that parses.
IsJavaScriptRequest(urlObj) ==
  LET pathname == ToLowerCase(urlObj.pathname)
  IN  \/ TestJsSuffix(pathname)
      \/ Includes(pathname, <<".", "j", "s">>)
      \/ "jsModule" \in urlObj.searchParams

\* The text an inline script element can have; " " is only whitespace.
InlineBodies == {"s1", "s2", " "}

\* Document order of the inline script elements.
BodyOrder == <<"s1", " ", "s2", "s1 ">>

\* The nodes a mutation record can add: a script element with a src, a
\* script element with text and no src, an element that matches none of
\* the selectors and has no descendants, or such an element with a script
\* element inside; inner lists the src attributes of the script elements
\* among a node's descendants.
Nodes ==
  {[tagName |-> "SCRIPT", src |-> u, text |-> "", inner |-> <<>>] : u \in PageSrcs} \cup
  {[tagName |-> "SCRIPT", src |-> "", text |-> b, inner |-> <<>>] : b \in InlineBodies} \cup
  {[tagName |-> "DIV", src |-> "", text |-> "", inner |-> <<>>],
   [tagName |-> "DIV", src |-> "", text |-> "", inner |-> <<"u2">>]}

\* The added nodes one mutation callback is handed: each node alone, and
\* some pairs.
MutationBatches ==
  {<<n>> : n \in Nodes} \cup
  {<<[tagName |-> "SCRIPT", src |-> "u2", text |-> "", inner |-> <<>>],
     [tagName |-> "SCRIPT", src |-> "u1", text |-> "", inner |-> <<>>]>>,
   <<[tagName |-> "SCRIPT", src |-> "", text |-> "s2", inner |-> <<>>],
     [tagName |-> "SCRIPT", src |-> "u1", text |-> "", inner |-> <<>>]>>}

\* textContent.trim()
Trim(body) ==
  CASE body = " " -> ""
    [] body = "s1 " -> "s1"
    [] OTHER -> body

\* generateHash on the texts of the model, as its fingerprint string.
BodyHash(code) == IF code = "s1" THEN "h1" ELSE "h2"

\* collectInlineScripts over the inline scripts `bodies` of the document, in
\* document order: an empty text is skipped, a known hash is not pushed.
RECURSIVE PushInlines(_, _, _)
PushInlines(list, codes, t) ==
  IF codes = <<>> THEN list
  ELSE LET code == Trim(Head(codes))
           next == IF code = "" \/ HasHash(list, BodyHash(code))
                   THEN list
                   ELSE Append(list, InlineEntry(BodyHash(code), code, t))
       IN  PushInlines(next, Tail(codes), t)

CollectInlineScripts(list, bodies, t) ==
  PushInlines(list, SelectSeq(BodyOrder, LAMBDA b : b \in bodies), t)

\* The inline part of collectOnce in README-REFACTOR.md: every script
\* element with a non-empty trimmed text is pushed as {hash, snippet,
\* suspicious}, with no timestamp and no test of the hashes pushed before.
RECURSIVE PushEveryInline(_, _)
PushEveryInline(list, codes) ==
  IF codes = <<>> THEN list
  ELSE LET code == Trim(Head(codes))
           next == IF code = "" THEN list
                   ELSE Append(list, InlineEntry(BodyHash(code), code, -1))
       IN  PushEveryInline(next, Tail(codes))

CollectOnceInlines(list, bodies) ==
  PushEveryInline(list, SelectSeq(BodyOrder, LAMBDA b : b \in bodies))

\* toAbsoluteUrl(url): null for an empty string and when new URL throws,
\* else the href of the URL resolved against the page's address.
Null == "null"

ToAbsoluteUrl(url) ==
  CASE url = "" -> Null
    [] url = "http://[" -> Null
    [] url = "a.js" -> "u1"
    [] OTHER -> url

\* addUrl forgetting the URLs added before.
AddUrlForgetting(set, url) == <<url>>

\* addUrl(url): Set.add of a JavaScript-like absolute URL.
AddUrlToSet(set, url) ==
  LET absoluteUrl == ToAbsoluteUrl(url)
  IN  IF /\ absoluteUrl # Null
         /\ IsJavaScriptLike(ParseUrl(absoluteUrl))
         /\ absoluteUrl \notin Range(set)
      THEN Append(set, absoluteUrl)
      ELSE set

RECURSIVE AddSrcs(_, _)
AddSrcs(set, srcs) ==
  IF srcs = <<>> THEN set
  ELSE AddSrcs(AddUrlToSet(set, Head(srcs)), Tail(srcs))

\* collectOnce / collectInitialFiles: querySelectorAll('script[src]') in
\* document order.
CollectScripts(set) ==
  AddSrcs(set, SelectSeq(DocOrder, LAMBDA u : u \in dom))

\* clearTimeout(id): a pending timer is cancelled; anything else is ignored.
ClearTimeout(table, id) ==
  IF id \in 1..Len(table) /\ table[id] = "pending"
  THEN [table EXCEPT ![id] = "cancelled"]
  ELSE table

\* scheduleSave without its clearTimeout.
ScheduleSaveNoClear(table, id) == Append(table, "pending")

\* scheduleSave on the timer table: clearTimeout(saveTimer), then setTimeout.
ScheduleSaveTimers(table, id) == Append(ClearTimeout(table, id), "pending")

\* scheduleSave(): the new timer's id is kept in saveTimer.
ScheduleSave ==
  /\ Len(timers) < MaxTimers
  /\ timers' = ScheduleSaveTimers(timers, saveTimer)
  /\ saveTimer' = Len(timers) + 1

\* content.js runs: collectOnce(), scheduleSave(), observer.observe(...).
ContentJsRuns ==
  /\ build = "v1"
  /\ csPc = "start"
  /\ csUrls' = CollectScripts(csUrls)
  /\ ScheduleSave
  /\ observer' = TRUE
  /\ csPc' = "running"
  /\ UNCHANGED <<dom, load, runtime, outbox, csInlines, domInlines, destroyed>>
  /\ UNCHANGED bgvars

\* The content.js of README-REFACTOR.md, in the get callback of
\* bugsniffer_enabled: it returns if the flag is false, else collectOnce()
\* with the inline scripts, scheduleSave(), observer.observe(...).
ReadmeContentRuns(enabled) ==
  /\ build = "readme"
  /\ csPc = "start"
  /\ IF enabled
     THEN /\ csUrls' = CollectScripts(csUrls)
          /\ csInlines' = CollectOnceInlines(csInlines, domInlines)
          /\ ScheduleSave
          /\ observer' = TRUE
          /\ csPc' = "running"
     ELSE /\ csPc' = "off"
          /\ UNCHANGED <<csUrls, csInlines, saveTimer, timers, observer>>
  /\ UNCHANGED <<dom, load, runtime, outbox, domInlines, destroyed>>
  /\ UNCHANGED bgvars

\* checkEnabledAndRun resumes with the enabled state, which is false when
\* chrome.storage throws for lack of an extension context; if enabled,
\* initialize(): collectInitialFiles(), scheduleSave(),
\* setupMutationObserver(), and the load listener unless the document is
\* complete.
CheckEnabledResolves(enabled, complete) ==
  /\ build = "class"
  /\ csPc = "start"
  /\ IF enabled /\ runtime
     THEN /\ csUrls' = CollectScripts(csUrls)
          /\ csInlines' = CollectInlineScripts(csInlines, domInlines, now)
          /\ ScheduleSave
          /\ observer' = TRUE
          /\ load' = IF complete THEN "none" ELSE "listening"
          /\ csPc' = "running"
     ELSE /\ csPc' = "off"
          /\ UNCHANGED <<csUrls, csInlines, saveTimer, timers, observer, load>>
  /\ UNCHANGED <<dom, runtime, outbox, domInlines, destroyed>>
  /\ UNCHANGED bgvars

\* The src attributes one added node hands to addUrl, in order: its own if
\* it is a script element with a src, then those of the script elements
\* among its descendants.
NodeSrcs(n) ==
  (IF n.tagName = "SCRIPT" /\ n.src # "" THEN <<n.src>> ELSE <<>>) \o n.inner

RECURSIVE AddedSrcs(_)
AddedSrcs(nodes) ==
  IF nodes = <<>> THEN <<>> ELSE NodeSrcs(Head(nodes)) \o AddedSrcs(Tail(nodes))

\* The added node sets changed: a script element with a src does; in
\* the class script (handleNewElement) so does a script element with text
\* and no src, and a script element with a src among the descendants;
\* content.js passes the descendants to addUrl without setting changed.
SetsChanged(n) ==
  \/ n.tagName = "SCRIPT" /\ n.src # ""
  \/ build = "class" /\ n.tagName = "SCRIPT" /\ n.src = "" /\ n.text # ""
  \/ build = "class" /\ Len(n.inner) > 0

\* The MutationObserver callback for added nodes, which are in the
\* document by then: the src of a script element, added itself or inside
\* an added node, is passed to addUrl; in the class script a script element
\* with text and no src runs collectInlineScripts(), content.js ignores it;
\* scheduleSave() if changed.
MutationCallback(nodes) ==
  LET srcs == AddedSrcs(nodes)
      inline == SelectSeq(nodes, LAMBDA n : n.tagName = "SCRIPT" /\ n.src = "")
      texts == {inline[i].text : i \in 1..Len(inline)}
      scans == build = "class" /\ Len(inline) > 0
  IN  /\ observer
      /\ dom' = dom \cup Range(srcs)
      /\ domInlines' = domInlines \cup texts
      /\ csUrls' = AddSrcs(csUrls, srcs)
      /\ csInlines' = IF scans
                      THEN CollectInlineScripts(csInlines, domInlines \cup texts, now)
                      ELSE csInlines
      /\ IF \E i \in 1..Len(nodes) : SetsChanged(nodes[i])
         THEN ScheduleSave
         ELSE UNCHANGED <<saveTimer, timers>>
      /\ UNCHANGED <<csPc, observer, load, runtime, outbox, destroyed>>
      /\ UNCHANGED bgvars

\* A message with no urls and no inlines.
BuildMessageEmpty ==
  SaveMsg(PageDomain, <<>>, <<>>,
          IF build = "class" THEN CspNull ELSE CspUndefined, <<>>)

\* The message the timer callback passes to chrome.runtime.sendMessage, on
\* a page with no CSP meta tag or integrity attribute; content.js has no
\* inlines.
BuildMessage ==
  SaveMsg(PageDomain, csUrls, csInlines,
          IF build = "v1" THEN CspUndefined ELSE CspNull, <<>>)

\* The timer callback sends: content.js if urls.size, saveToBackground if
\* chrome.runtime?.sendMessage; without chrome.runtime content.js throws.
CanSend == runtime /\ (build = "v1" => Len(csUrls) > 0)

\* A pending save timer fires and its callback runs.
SaveTimerFires(id) ==
  /\ id \in 1..Len(timers)
  /\ timers[id] = "pending"
  /\ timers' = [timers EXCEPT ![id] = "fired"]
  /\ outbox' = IF CanSend THEN Append(outbox, BuildMessage) ELSE outbox
  /\ UNCHANGED <<csPc, csUrls, saveTimer, observer, dom, load, runtime>>
  /\ UNCHANGED <<csInlines, domInlines, destroyed>>
  /\ UNCHANGED bgvars

\* beforeunload: destroy() disconnects the observer and clears the timer.
Destroy ==
  /\ build = "class"
  /\ observer' = FALSE
  /\ IF saveTimer # 0
     THEN /\ timers' = ClearTimeout(timers, saveTimer)
          /\ saveTimer' = 0
     ELSE UNCHANGED <<saveTimer, timers>>
  /\ destroyed' = TRUE
  /\ UNCHANGED <<csPc, csUrls, dom, load, runtime, outbox, csInlines, domInlines>>
  /\ UNCHANGED bgvars

\* The window's load event: the listener arms its one-second timer.
WindowLoad ==
  /\ load = "listening"
  /\ load' = "timer"
  /\ UNCHANGED <<csPc, csUrls, saveTimer, timers, observer, dom, runtime, outbox>>
  /\ UNCHANGED <<csInlines, domInlines, destroyed>>
  /\ UNCHANGED bgvars

\* The one-second timer after load: collectInitialFiles(), scheduleSave().
LoadTimerFires ==
  /\ load = "timer"
  /\ load' = "done"
  /\ csUrls' = CollectScripts(csUrls)
  /\ csInlines' = CollectInlineScripts(csInlines, domInlines, now)
  /\ ScheduleSave
  /\ UNCHANGED <<csPc, observer, dom, runtime, outbox, domInlines, destroyed>>
  /\ UNCHANGED bgvars

\* The extension is reloaded or removed: the page's chrome.runtime loses
\* sendMessage.
RuntimeInvalidated ==
  /\ runtime
  /\ runtime' = FALSE
  /\ UNCHANGED <<csPc, csUrls, saveTimer, timers, observer, dom, load, outbox>>
  /\ UNCHANGED <<csInlines, domInlines, destroyed>>
  /\ UNCHANGED bgvars

(***************************************************************************)
(* SpecContent: one content script of either build on a page whose script  *)
(* elements come and go with mutations.                                    *)
(***************************************************************************)
ContentInit ==
  /\ storage = [d \in Domains |-> Absent]
  /\ ProcsIdle
  /\ build \in {"class", "v1"}
  /\ ContentScriptStart(SUBSET PageSrcs, {{}, {"s1"}})

NextContent ==
  \/ ContentJsRuns
  \/ \E enabled \in BOOLEAN, complete \in BOOLEAN :
       CheckEnabledResolves(enabled, complete)
  \/ \E nodes \in MutationBatches : MutationCallback(nodes)
  \/ \E id \in 1..MaxTimers : SaveTimerFires(id)
  \/ Destroy
  \/ WindowLoad
  \/ LoadTimerFires
  \/ RuntimeInvalidated

SpecContent == ContentInit /\ [][NextContent]_vars

(***************************************************************************)
(* SpecContentLive: the content script on a page with at most one script   *)
(* at start; the browser fires a timer that stays pending.                 *)
(***************************************************************************)
ContentLiveInit ==
  /\ storage = [d \in Domains |-> Absent]
  /\ ProcsIdle
  /\ build \in {"class", "v1"}
  /\ ContentScriptStart({{}, {"u1"}}, {{}})

SpecContentLive ==
  /\ ContentLiveInit
  /\ [][NextContent]_vars
  /\ WF_vars(\E id \in 1..MaxTimers : SaveTimerFires(id))

(***************************************************************************)
(* SpecPipeline: the class content script of one page, its messages on     *)
(* their way to the background, the merges and network completions of the  *)
(* background one at a time, the popup's enable toggle, and a store that   *)
(* may refuse writes.                                                      *)
(***************************************************************************)
\* The message at the head of the channel reaches handleMessage.
DeliverMessage(p) ==
  /\ outbox # <<>>
  /\ SaveJsUrlsBegins(p, Head(outbox))
  /\ outbox' = Tail(outbox)
  /\ UNCHANGED <<csPc, csUrls, saveTimer, timers, observer, dom, load, runtime>>
  /\ UNCHANGED <<csInlines, domInlines, destroyed, race, classified, hashed, event>>

\* The message at the head of the channel has no receiver: the callback of
\* chrome.runtime.sendMessage runs with lastError, sendMessage rejects and
\* saveToBackground logs the error.
MessageLost ==
  /\ outbox # <<>>
  /\ outbox' = Tail(outbox)
  /\ UNCHANGED <<csPc, csUrls, saveTimer, timers, observer, dom, load, runtime>>
  /\ UNCHANGED <<csInlines, domInlines, destroyed>>
  /\ UNCHANGED bgvars

\* The popup's toggle writes bugsniffer_enabled, here between handler runs.
SetEnabled(enabled) ==
  /\ \A p \in Procs : pc[p] = "idle"
  /\ bugsniffer_enabled # enabled
  /\ bugsniffer_enabled' = enabled
  /\ UNCHANGED <<storage, now, pc, req, local, v1vars, stream, csvars>>
  /\ UNCHANGED <<storageOk, response, race, classified, hashed, event>>

\* The store starts or stops refusing writes (unavailable, quota exceeded).
StorageTurns(ok) ==
  /\ storageOk # ok
  /\ storageOk' = ok
  /\ UNCHANGED <<storage, now, pc, req, local, v1vars, stream, csvars>>
  /\ UNCHANGED <<bugsniffer_enabled, response, race, classified, hashed, event>>

PipelineBatches ==
  {<<[tagName |-> "SCRIPT", src |-> "u1", text |-> "", inner |-> <<>>]>>,
   <<[tagName |-> "SCRIPT", src |-> "u2", text |-> "", inner |-> <<>>]>>,
   <<[tagName |-> "SCRIPT", src |-> "", text |-> "s1", inner |-> <<>>]>>}

PipelineInit ==
  /\ storage = [d \in Domains |-> Absent]
  /\ ProcsIdle
  /\ ClassBuild
  /\ ContentScriptStart({{}, {"u1"}}, {{}})

NextPipeline ==
  \/ CheckEnabledResolves(bugsniffer_enabled, TRUE)
  \/ \E nodes \in PipelineBatches : MutationCallback(nodes)
  \/ \E id \in 1..MaxTimers : SaveTimerFires(id)
  \/ DeliverMessage("p1")
  \/ MessageLost
  \/ HandleSaveJsUrlsRead("p1")
  \/ HandleSaveJsUrlsWrite("p1")
  \/ \E d \in Domains : HandleWebRequest("p1", d, "u3")
  \/ SaveJavaScriptFileRead("p1")
  \/ SaveJavaScriptFileWrite("p1")
  \/ \E enabled \in BOOLEAN : SetEnabled(enabled)
  \/ \E ok \in BOOLEAN : StorageTurns(ok)

SpecPipeline == PipelineInit /\ [][NextPipeline]_vars

\* The URLs a stored value holds: those of a bare array, or of the files of
\* a record.
StoredUrls(value) ==
  CASE value.kind = "absent" -> {}
    [] value.kind = "array" -> Range(value.arr)
    [] OTHER -> Range(FileUrls(value.files))

\* The inline hashes a stored value holds.
StoredHashes(value) ==
  IF value.kind = "object" THEN Range(InlineHashes(value.inlines)) ELSE {}

\* The record `merged` holds every file URL and inline hash of `value`.
Keeps(merged, value) ==
  /\ StoredUrls(value) \subseteq StoredUrls(merged)
  /\ StoredHashes(value) \subseteq StoredHashes(merged)

(***************************************************************************)
(* SpecRace: two writers, each merging its own batch for the same domain   *)
(* with handleSaveJsUrls, interleaved at the awaits of getStorageData and  *)
(* setStorageData. race records, for every writer, how its latest merge    *)
(* stands against the writes of the others:                                *)
(*   "none"      it has not read yet;                                      *)
(*   "fresh"     it has read, and no one has written since;                *)
(*   "stale"     it has read, and another merge was written since;         *)
(*   "clean"     it wrote while fresh (nothing interleaved with it);       *)
(*   "overtaken" it wrote while stale;                                     *)
(* whether some write has removed a stored URL or inline hash (lost), and   *)
(* which writers have completed a merge with no interleaving since the     *)
(* latest such write (remerged).                                           *)
(***************************************************************************)
RaceBatch(p) ==
  IF p = "p1"
  THEN SaveMsg("a.com", <<"u1">>, <<[hash |-> "h1", data |-> "s1"]>>,
               CspNull, <<>>)
  ELSE SaveMsg("a.com", <<"u2">>, <<[hash |-> "h2", data |-> "s2"]>>,
               CspNull, <<>>)

\* The URLs and inline hashes of a batch.
BatchUrls(msg) == Range(msg.urls)

BatchHashes(msg) == {msg.inlines[i].hash : i \in 1..Len(msg.inlines)}

RaceBegin(p) == HandleSaveJsUrlsBegin(p, RaceBatch(p))

RaceRead(p) ==
  /\ SaveJsUrlsReads(p)
  /\ race' = [race EXCEPT !.status[p] = "fresh"]
  /\ UNCHANGED <<classified, hashed, event>>

RaceWrite(p) ==
  /\ SaveJsUrlsWrites(p)
  /\ race' =
       [remerged |->
          IF ~Keeps(local[p], storage[req[p].domain]) THEN {}
          ELSE IF race.status[p] = "fresh" THEN race.remerged \cup {p}
          ELSE race.remerged,
        status |->
          [q \in Procs |->
             IF q = p
             THEN IF race.status[p] = "fresh" THEN "clean" ELSE "overtaken"
             ELSE IF race.status[q] = "fresh" /\ req[q].domain = req[p].domain
                  THEN "stale"
                  ELSE race.status[q]],
        lost |-> race.lost \/ ~Keeps(local[p], storage[req[p].domain])]
  /\ UNCHANGED <<classified, hashed, event>>

RaceInit ==
  /\ storage \in [Domains -> {Absent, LegacyArray(<<"u3">>)}]
  /\ ProcsIdle
  /\ ClassBuild
  /\ NoPage

NextRace ==
  \/ Tick
  \/ \E p \in Procs : RaceBegin(p)
  \/ \E p \in Procs : RaceRead(p)
  \/ \E p \in Procs : RaceWrite(p)

SpecRace == RaceInit /\ [][NextRace]_vars

(***************************************************************************)
(* SpecClear: merges and clears over the records of two domains.           *)
(***************************************************************************)
ClearDomains == {"a.com", "b.com"}

\* A CLEAR_DOMAIN_DATA or CLEAR_DOMAIN message for a domain.
ClearReq(type, domain) == [NoReq EXCEPT !.type = type, !.domain = domain]

\* chrome.storage.local.clear(): every key is removed.
StorageRemoveAll(store, key) == [k \in DOMAIN store |-> Absent]

\* chrome.storage.local.remove([key]), applied.
StorageRemove(store, key) ==
  IF storageOk THEN [store EXCEPT ![key] = Absent] ELSE store

\* map.delete(key), mutated: map.clear().
MapClear(map, key) == EmptyMap

\* map.delete(key)
MapDelete(map, key) == [k \in DOMAIN map \ {key} |-> map[k]]

\* handleMessage CLEAR_DOMAIN_DATA: handleClearDomainData throws for a
\* missing domain, and the catch-callback sends {success: false}; else it
\* awaits removeStorageData([domain]).
ClearDomainDataBegins(p, domain) ==
  /\ build = "class"
  /\ pc[p] = "idle"
  /\ IF domain = ""
     THEN /\ response' = [response EXCEPT
                            ![p] = ErrorResponse("Domain is required")]
          /\ UNCHANGED <<pc, req>>
     ELSE /\ pc' = [pc EXCEPT ![p] = "remove"]
          /\ req' = [req EXCEPT ![p] = ClearReq("CLEAR_DOMAIN_DATA", domain)]
          /\ response' = [response EXCEPT ![p] = NoResponse]
  /\ UNCHANGED <<storage, now, local>>
  /\ UNCHANGED <<v1vars, stream, csvars, envvars, race, classified, hashed, event>>

\* chrome.storage.local.remove([domain]) completes, removeStorageData
\* resolves, and the then-callback sends {success: true}.
ClearDomainDataRemoves(p) ==
  /\ pc[p] = "remove"
  /\ req[p].type = "CLEAR_DOMAIN_DATA"
  /\ storage' = StorageRemove(storage, req[p].domain)
  /\ pc' = [pc EXCEPT ![p] = "idle"]
  /\ req' = [req EXCEPT ![p] = NoReq]
  /\ response' = [response EXCEPT ![p] = Response(TRUE)]
  /\ UNCHANGED <<now, local>>
  /\ UNCHANGED <<v1vars, stream, csvars, envvars, race, classified, hashed, event>>

\* background.js, CLEAR_DOMAIN: chrome.storage.local.remove([domain], cb).
ClearDomainArrives(p, domain) ==
  /\ build = "v1"
  /\ pc[p] = "idle"
  /\ pc' = [pc EXCEPT ![p] = "remove"]
  /\ req' = [req EXCEPT ![p] = ClearReq("CLEAR_DOMAIN", domain)]
  /\ response' = [response EXCEPT ![p] = NoResponse]
  /\ UNCHANGED <<storage, now, local>>
  /\ UNCHANGED <<v1vars, stream, csvars, envvars, race, classified, hashed, event>>

\* The remove callback: globalJSFiles.delete(domain); sendResponse.
ClearDomainRemoved(p) ==
  /\ pc[p] = "remove"
  /\ req[p].type = "CLEAR_DOMAIN"
  /\ storage' = StorageRemove(storage, req[p].domain)
  /\ globalJSFiles' = MapDelete(globalJSFiles, req[p].domain)
  /\ pc' = [pc EXCEPT ![p] = "idle"]
  /\ req' = [req EXCEPT ![p] = NoReq]
  /\ response' = [response EXCEPT ![p] = Response(TRUE)]
  /\ UNCHANGED <<now, local, build, tabJSFiles>>
  /\ UNCHANGED <<stream, csvars, envvars, race, classified, hashed, event>>

ClearBatches ==
  {SaveMsg(d, <<"u1">>, <<>>, CspNull, <<>>) : d \in ClearDomains}

\* Every domain holds the bare array an earlier version left.
ClearInit ==
  /\ storage = [d \in ClearDomains |-> LegacyArray(<<"u3">>)]
  /\ ProcsIdle
  /\ build \in {"class", "v1"}
  /\ NoPage

NextClear ==
  \/ \E p \in Procs, msg \in ClearBatches : HandleSaveJsUrlsBegin(p, msg)
  \/ \E p \in Procs : HandleSaveJsUrlsRead(p)
  \/ \E p \in Procs : HandleSaveJsUrlsWrite(p)
  \/ \E p \in Procs, d \in ClearDomains : HandleWebRequest(p, d, "u2")
  \/ \E p \in Procs : SaveJavaScriptFileRead(p)
  \/ \E p \in Procs : SaveJavaScriptFileWrite(p)
  \/ \E p \in Procs : StoreJS(p, "u2", 1, "network")
  \/ \E p \in Procs : SaveJSFileGet(p)
  \/ \E p \in Procs : SaveJSFileSet(p)
  \/ \E p \in Procs, d \in ClearDomains \cup {""} : ClearDomainDataBegins(p, d)
  \/ \E p \in Procs : ClearDomainDataRemoves(p)
  \/ \E p \in Procs, d \in ClearDomains : ClearDomainArrives(p, d)
  \/ \E p \in Procs : ClearDomainRemoved(p)

SpecClear == ClearInit /\ [][NextClear]_vars

(***************************************************************************)
(* SpecClassify: the two classifiers, called on every URL of the model.    *)
(***************************************************************************)
\* The content script calls isJavaScriptLike(url).
IsJavaScriptLikeCalled(urlObj) ==
  /\ classified' = [fn |-> "isJavaScriptLike", url |-> urlObj,
                    result |-> IsJavaScriptLike(urlObj)]
  /\ UNCHANGED <<storage, now, pc, req, local, v1vars, stream, csvars>>
  /\ UNCHANGED <<envvars, response, race, hashed, event>>

\* handleWebRequest calls isJavaScriptRequest(details.url).
IsJavaScriptRequestCalled(urlObj) ==
  /\ classified' = [fn |-> "isJavaScriptRequest", url |-> urlObj,
                    result |-> IsJavaScriptRequest(urlObj)]
  /\ UNCHANGED <<storage, now, pc, req, local, v1vars, stream, csvars>>
  /\ UNCHANGED <<envvars, response, race, hashed, event>>

ClassifyInit ==
  /\ storage = [d \in Domains |-> Absent]
  /\ ProcsIdle
  /\ ClassBuild
  /\ NoPage

NextClassify ==
  \/ \E urlObj \in ModelUrls : IsJavaScriptLikeCalled(urlObj)
  \/ \E urlObj \in ModelUrls : IsJavaScriptRequestCalled(urlObj)

SpecClassify == ClassifyInit /\ [][NextClassify]_vars

(***************************************************************************)
(* SpecSchemes: a page whose script elements name relative, non-http and   *)
(* unparsable URLs, its content script, and the background's merges.       *)
(***************************************************************************)
SchemeBatches ==
  {<<[tagName |-> "SCRIPT", src |-> u, text |-> "", inner |-> <<>>]>> : u \in SchemeSrcs}

SchemesInit ==
  /\ storage = [d \in Domains |-> Absent]
  /\ ProcsIdle
  /\ ClassBuild
  /\ ContentScriptStart({{}, {"a.js", "http://["}}, {{}})

NextSchemes ==
  \/ CheckEnabledResolves(bugsniffer_enabled, TRUE)
  \/ \E nodes \in SchemeBatches : MutationCallback(nodes)
  \/ \E id \in 1..MaxTimers : SaveTimerFires(id)
  \/ DeliverMessage("p1")
  \/ HandleSaveJsUrlsRead("p1")
  \/ HandleSaveJsUrlsWrite("p1")

SpecSchemes == SchemesInit /\ [][NextSchemes]_vars

(***************************************************************************)
(* SpecHash: generateHash, called on every string of up to MaxStr          *)
(* characters.  A number is a pair <<hi, lo>> that stands for              *)
(* hi * 65536 + lo with lo in 0..65535, so that the arithmetic of the code *)
(* is carried out exactly beyond 32 bits.                                  *)
(***************************************************************************)
\* The char codes of the model: "a", a surrogate, and the largest code.
CharCodes == {97, 55357, 65535}

\* The pair in normal form: lo brought into 0..65535, the rest carried.
Norm(x) == <<x[1] + (x[2] \div 65536), x[2] % 65536>>

\* ToInt32 without the wrap.
ToInt32Wide(x) == Norm(x)

\* ToInt32: the number modulo 2^32, read as a signed 32-bit integer.
ToInt32(x) ==
  LET n == Norm(x)
  IN  <<((n[1] + 32768) % 65536) - 32768, n[2]>>

\* hash << 5: the left shift of the 32-bit pattern, a signed 32-bit integer.
Shl5(x) == ToInt32(<<x[1] * 32, x[2] * 32>>)

\* a - b, and a + char, as JavaScript numbers.
Minus(a, b) == Norm(<<a[1] - b[1], a[2] - b[2]>>)

Plus(a, char) == Norm(<<a[1], a[2] + char>>)

\* One iteration of the loop:
\* hash = ((hash << 5) - hash) + char; hash |= 0;
HashStep(hash, char) == ToInt32(Plus(Minus(Shl5(hash), hash), char))

\* The loop over the characters of str, from hash = 0.
RECURSIVE HashLoop(_, _)
HashLoop(hash, str) ==
  IF str = <<>> THEN hash
  ELSE HashLoop(HashStep(hash, Head(str)), Tail(str))

\* generateHash(str): 0 for the empty string, else the loop.
GenerateHash(str) == IF str = <<>> THEN <<0, 0>> ELSE HashLoop(<<0, 0>>, str)

GenerateHashCalled(str) ==
  /\ hashed' = [called |-> TRUE, str |-> str, result |-> GenerateHash(str)]
  /\ UNCHANGED <<storage, now, pc, req, local, v1vars, stream, csvars>>
  /\ UNCHANGED <<envvars, response, race, classified, event>>

HashInit ==
  /\ storage = [d \in Domains |-> Absent]
  /\ ProcsIdle
  /\ ClassBuild
  /\ NoPage

NextHash == \E str \in SeqsUpTo(CharCodes, MaxStr) : GenerateHashCalled(str)

SpecHash == HashInit /\ [][NextHash]_vars

(***************************************************************************)
(* SpecCommute: one handleSaveJsUrls merge at a time, of batches of URLs   *)
(* and inlines, over a record that may start as a bare array.              *)
(***************************************************************************)
CommuteBatches ==
  {SaveMsg(d, u, i, CspNull, <<>>) :
     d \in Domains, u \in SeqsUpTo(ConcUrls, MaxBatch),
     i \in {<<>>} \cup {<<x>> : x \in InlineInputs}}

CommuteInit ==
  /\ storage \in [Domains -> {Absent, LegacyArray(<<"u3">>)}]
  /\ ProcsIdle
  /\ ClassBuild
  /\ NoPage

NextCommute ==
  \/ \E msg \in CommuteBatches : HandleSaveJsUrlsBegin("p1", msg)
  \/ HandleSaveJsUrlsRead("p1")
  \/ HandleSaveJsUrlsWrite("p1")

SpecCommute == CommuteInit /\ [][NextCommute]_vars

(***************************************************************************)
(* SpecScan: the content scripts that collect inline scripts, on pages     *)
(* whose inline scripts may have the same text up to surrounding space.    *)
(***************************************************************************)
ScanBodies == {"s1", "s1 ", "s2", " "}

ScanBatches ==
  {<<[tagName |-> "SCRIPT", src |-> "", text |-> b, inner |-> <<>>]>> :
     b \in ScanBodies}

ScanInit ==
  /\ storage = [d \in Domains |-> Absent]
  /\ ProcsIdle
  /\ build \in {"class", "readme"}
  /\ ContentScriptStart({{}}, {{}, {"s1", " "}, {"s1", "s1 "}})

NextScan ==
  \/ \E complete \in BOOLEAN : CheckEnabledResolves(bugsniffer_enabled, complete)
  \/ ReadmeContentRuns(bugsniffer_enabled)
  \/ \E nodes \in ScanBatches : MutationCallback(nodes)
  \/ \E id \in 1..MaxTimers : SaveTimerFires(id)
  \/ WindowLoad
  \/ LoadTimerFires

SpecScan == ScanInit /\ [][NextScan]_vars

(***************************************************************************)
(* SpecShapes: background.js alone, one operation at a time: storeJS with  *)
(* saveJSFile, which writes {files, lastCrawl}, and the SAVE_JS_URLS       *)
(* listener, which writes a bare array of URLs.                            *)
(***************************************************************************)
\* Array.from(new Set(list)): the first occurrence of every element.
RECURSIVE Distinct(_, _)
Distinct(seen, list) ==
  IF list = <<>> THEN seen
  ELSE Distinct(IF Head(list) \in Range(seen) THEN seen
                ELSE Append(seen, Head(list)),
                Tail(list))

\* The array the listener writes: Array.from(new Set([...existing, ...urls])).
SaveJsUrlsListenerMerge(value, urls) ==
  LegacyArray(Distinct(<<>>, value.arr \o urls))

\* The SAVE_JS_URLS listener of background.js: it issues
\* chrome.storage.local.get([domain]) and answers at once.
SaveJsUrlsListenerRuns(p, domain, urls) ==
  /\ build = "v1"
  /\ pc[p] = "idle"
  /\ pc' = [pc EXCEPT ![p] = "get"]
  /\ req' = [req EXCEPT
               ![p] = [NoReq EXCEPT !.type = "SAVE_JS_URLS listener",
                                    !.domain = domain, !.urls = urls]]
  /\ response' = [response EXCEPT ![p] = UndefinedResponse]
  /\ UNCHANGED <<storage, now, local>>
  /\ UNCHANGED <<v1vars, stream, csvars, envvars, race, classified, hashed, event>>

\* Its get callback: existing = data[domain] || []; on a {files, lastCrawl}
\* object the spread [...existing] throws, the callback ends and nothing
\* is written; else it issues the write of the merged array.
SaveJsUrlsListenerGet(p) ==
  /\ pc[p] = "get"
  /\ req[p].type = "SAVE_JS_URLS listener"
  /\ IF storage[req[p].domain].kind = "object"
     THEN /\ pc' = [pc EXCEPT ![p] = "idle"]
          /\ req' = [req EXCEPT ![p] = NoReq]
          /\ UNCHANGED local
     ELSE /\ pc' = [pc EXCEPT ![p] = "set"]
          /\ local' = [local EXCEPT
                          ![p] = SaveJsUrlsListenerMerge(storage[req[p].domain],
                                                         req[p].urls)]
          /\ UNCHANGED req
  /\ UNCHANGED <<storage, now, v1vars, stream, csvars>>
  /\ UNCHANGED <<envvars, response, race, classified, hashed, event>>

\* chrome.storage.local.set({[domain]: merged}) is applied.
SaveJsUrlsListenerSet(p) ==
  /\ pc[p] = "set"
  /\ req[p].type = "SAVE_JS_URLS listener"
  /\ storage' = StorageSet(storage, req[p].domain, local[p])
  /\ pc' = [pc EXCEPT ![p] = "idle"]
  /\ req' = [req EXCEPT ![p] = NoReq]
  /\ local' = [local EXCEPT ![p] = Absent]
  /\ UNCHANGED <<now, v1vars, stream, csvars>>
  /\ UNCHANGED <<envvars, response, race, classified, hashed, event>>

ShapesInit ==
  /\ storage = [d \in Domains |-> Absent]
  /\ ProcsIdle
  /\ build = "v1"
  /\ NoPage

NextShapes ==
  \/ Tick
  \/ \E u \in ConcUrls, t \in Tabs : StoreJS("p1", u, t, "network")
  \/ SaveJSFileGet("p1")
  \/ SaveJSFileSet("p1")
  \/ \E d \in Domains, u \in ConcUrls : SaveJsUrlsListenerRuns("p1", d, <<u>>)
  \/ SaveJsUrlsListenerGet("p1")
  \/ SaveJsUrlsListenerSet("p1")

SpecShapes == ShapesInit /\ [][NextShapes]_vars

(***************************************************************************)
(* SpecStoreRace: background.js, script requests seen close together: the  *)
(* get and set callbacks of two saveJSFile calls interleave.               *)
(***************************************************************************)
\* The URLs of the requests: two scripts, and one that storeJS rejects.
StoreUrls == ConcUrls \cup {"javascript:x.js"}

StoreRaceInit ==
  /\ storage = [d \in Domains |-> Absent]
  /\ ProcsIdle
  /\ build = "v1"
  /\ NoPage

NextStoreRace ==
  \/ Tick
  \/ \E p \in Procs, u \in StoreUrls, t \in Tabs : StoreJS(p, u, t, "network")
  \/ \E p \in Procs : SaveJSFileGet(p)
  \/ \E p \in Procs : SaveJSFileSet(p)

SpecStoreRace == StoreRaceInit /\ [][NextStoreRace]_vars

(***************************************************************************)
(* SpecMessages: background.js, a GET_JS_FILES message is dispatched to    *)
(* the three onMessage listeners in the order they were registered.        *)
(***************************************************************************)
\* The dispatch of a GET_JS_FILES message.  The first listener issues
\* chrome.storage.local.get([domain]) and returns true; the DEBUG_STATS
\* listener does nothing; the last listener skips its SAVE_JS_URLS branch
\* and calls sendResponse() for every message.
GetJsFilesArrives(p, domain) ==
  /\ build = "v1"
  /\ pc[p] = "idle"
  /\ pc' = [pc EXCEPT ![p] = "get"]
  /\ req' = [req EXCEPT
               ![p] = [NoReq EXCEPT !.type = "GET_JS_FILES", !.domain = domain]]
  /\ response' = [response EXCEPT
                    ![p] = SendResponse(NoResponse, UndefinedResponse)]
  /\ UNCHANGED <<storage, now, local>>
  /\ UNCHANGED <<v1vars, stream, csvars, envvars, race, classified, hashed, event>>

\* entry = data[domain] || {files: []}; entry.files
EntryFiles(value) == IF value.kind = "object" THEN value.files ELSE <<>>

\* The get callback of the first listener: on a bare array entry.files is
\* undefined and entry.files.length throws; else it calls sendResponse
\* with the files of the entry.
GetJsFilesGet(p) ==
  /\ pc[p] = "get"
  /\ req[p].type = "GET_JS_FILES"
  /\ LET value == storage[req[p].domain]
     IN  response' =
           IF value.kind = "array" THEN response
           ELSE [response EXCEPT
                   ![p] = SendResponse(response[p],
                            FilesResponse(req[p].domain, EntryFiles(value)))]
  /\ pc' = [pc EXCEPT ![p] = "idle"]
  /\ req' = [req EXCEPT ![p] = NoReq]
  /\ UNCHANGED <<storage, now, local>>
  /\ UNCHANGED <<v1vars, stream, csvars, envvars, race, classified, hashed, event>>

MessagesInit ==
  /\ storage = [d \in Domains |-> Absent]
  /\ ProcsIdle
  /\ build = "v1"
  /\ NoPage

NextMessages ==
  \/ Tick
  \/ \E p \in Procs, u \in ConcUrls, t \in Tabs : StoreJS(p, u, t, "network")
  \/ \E p \in Procs : SaveJSFileGet(p)
  \/ \E p \in Procs : SaveJSFileSet(p)
  \/ \E p \in Procs, d \in Domains : GetJsFilesArrives(p, d)
  \/ \E p \in Procs : GetJsFilesGet(p)

SpecMessages == MessagesInit /\ [][NextMessages]_vars

(***************************************************************************)
(* SpecErrors: handleMessage over messages with and without a domain and   *)
(* of unknown type.                                                        *)
(***************************************************************************)
\* A message {type, domain}.
Msg(type, domain) == [NoReq EXCEPT !.type = type, !.domain = domain]

\* handleMessage, case GET_DOMAIN_DATA: handleGetDomainData throws for a
\* missing domain, and the catch-callback sends {success: false}; else it
\* awaits getStorageData([domain]).
GetDomainDataBegins(p, domain) ==
  /\ build = "class"
  /\ pc[p] = "idle"
  /\ IF domain = ""
     THEN /\ response' = [response EXCEPT
                            ![p] = ErrorResponse("Domain is required")]
          /\ UNCHANGED <<pc, req>>
     ELSE /\ pc' = [pc EXCEPT ![p] = "get"]
          /\ req' = [req EXCEPT ![p] = Msg("GET_DOMAIN_DATA", domain)]
          /\ response' = [response EXCEPT ![p] = NoResponse]
  /\ UNCHANGED <<storage, now, local>>
  /\ UNCHANGED <<v1vars, stream, csvars, envvars, race, classified, hashed, event>>

\* The read completes: data[domain] || {files: [], inlines: [], metadata: {}}
\* is sent with {success: true}.
GetDomainDataReads(p) ==
  /\ pc[p] = "get"
  /\ req[p].type = "GET_DOMAIN_DATA"
  /\ LET value == storage[req[p].domain]
     IN  response' =
           [response EXCEPT
              ![p] = DataResponse(IF value = Absent THEN EmptyRecord ELSE value)]
  /\ pc' = [pc EXCEPT ![p] = "idle"]
  /\ req' = [req EXCEPT ![p] = NoReq]
  /\ UNCHANGED <<storage, now, local>>
  /\ UNCHANGED <<v1vars, stream, csvars, envvars, race, classified, hashed, event>>

\* handleMessage, default case: sendResponse({success: false, error}).
UnknownMessageArrives(p) ==
  /\ build = "class"
  /\ pc[p] = "idle"
  /\ response' = [response EXCEPT
                    ![p] = ErrorResponse("Unknown message type")]
  /\ UNCHANGED <<storage, now, pc, req, local>>
  /\ UNCHANGED <<v1vars, stream, csvars, envvars, race, classified, hashed, event>>

\* handleMessage(message, sender, sendResponse): the switch on message.type.
HandleMessage(p, message) ==
  CASE message.type = "SAVE_JS_URLS" -> HandleSaveJsUrlsBegin(p, message)
    [] message.type = "GET_DOMAIN_DATA" -> GetDomainDataBegins(p, message.domain)
    [] message.type = "CLEAR_DOMAIN_DATA" ->
         ClearDomainDataBegins(p, message.domain)
    [] OTHER -> UnknownMessageArrives(p)

\* The messages of SpecErrors: each handled type with a domain and without
\* one, and two types handleMessage does not know.
ErrorMessages ==
  {SaveMsg(d, <<"u1">>, <<>>, CspNull, <<>>) : d \in Domains \cup {""}} \cup
  {Msg(t, d) : t \in {"GET_DOMAIN_DATA", "CLEAR_DOMAIN_DATA", "GET_JS_FILES",
                      "PING"},
               d \in Domains \cup {""}}

ErrorsInit ==
  /\ storage \in [Domains -> {Absent, LegacyArray(<<"u3">>)}]
  /\ ProcsIdle
  /\ ClassBuild
  /\ NoPage

NextErrors ==
  \/ \E p \in Procs, message \in ErrorMessages : HandleMessage(p, message)
  \/ \E p \in Procs : HandleSaveJsUrlsRead(p)
  \/ \E p \in Procs : HandleSaveJsUrlsWrite(p)
  \/ \E p \in Procs : GetDomainDataReads(p)
  \/ \E p \in Procs : ClearDomainDataRemoves(p)

SpecErrors == ErrorsInit /\ [][NextErrors]_vars

(***************************************************************************)
(* SpecTabs: background.js, script requests of two tabs, navigation        *)
(* commits and tab removals.                                               *)
(***************************************************************************)
NavTabs == {1, 2}

\* frameId 0 is the main frame of a tab.
FrameIds == {0, 1}

\* The webNavigation.onCommitted listener: for the main frame it deletes
\* the tab's cache and injects findInlineAndDynamicScripts, whose findings
\* come back later as a DISCOVERED_SCRIPTS message; for another frame it
\* does nothing.
NavigationCommitted(tabId, frameId) ==
  /\ build = "v1"
  /\ tabJSFiles' = IF frameId = 0 THEN MapDelete(tabJSFiles, tabId)
                   ELSE tabJSFiles
  /\ event' = [type |-> "onCommitted", tabId |-> tabId, frameId |-> frameId]
  /\ UNCHANGED <<storage, now, pc, req, local, build, globalJSFiles>>
  /\ UNCHANGED <<stream, csvars, envvars, response, race, classified, hashed>>

\* The tabs.onRemoved listener: tabJSFiles.delete(tabId).
TabRemoved(tabId) ==
  /\ build = "v1"
  /\ tabJSFiles' = MapDelete(tabJSFiles, tabId)
  /\ event' = [type |-> "onRemoved", tabId |-> tabId, frameId |-> 0]
  /\ UNCHANGED <<storage, now, pc, req, local, build, globalJSFiles>>
  /\ UNCHANGED <<stream, csvars, envvars, response, race, classified, hashed>>

TabsInit ==
  /\ storage = [d \in Domains |-> Absent]
  /\ ProcsIdle
  /\ build = "v1"
  /\ NoPage

NextTabs ==
  \/ \E p \in Procs, u \in ConcUrls, t \in NavTabs : StoreJS(p, u, t, "network")
  \/ \E p \in Procs : SaveJSFileGet(p)
  \/ \E p \in Procs : SaveJSFileSet(p)
  \/ \E t \in NavTabs, f \in FrameIds : NavigationCommitted(t, f)
  \/ \E t \in NavTabs : TabRemoved(t)

SpecTabs == TabsInit /\ [][NextTabs]_vars

(***************************************************************************)
(* SpecMigrate: migrateDataFormat, run after an update, once or again,     *)
(* with no other writer.                                                   *)
(***************************************************************************)
\* The keys of chrome.storage.local: two domains and a key of the
\* extension's own.
MigrateKeys == {"a.com", "b.com", "bugsniffer_x"}

\* key.startsWith('bugsniffer_'), mutated: no key is skipped.
StartsWithNothing(key) == FALSE

\* key.startsWith('bugsniffer_')
StartsWithBugsniffer(key) == key = "bugsniffer_x"

\* newFormat: {files: value.map(url => ({url, timestamp: Date.now(),
\* source: 'legacy_migration'})), metadata: {version, migrated,
\* migrationDate}}; the metadata has none of lastUpdated, totalFiles and
\* totalInlines.
NewFormat(value, t) ==
  [EmptyRecord EXCEPT
     !.files = [i \in 1..Len(value.arr) |->
                  FileEntry(value.arr[i], t, "legacy_migration")]]

\* The keys the loop over Object.entries(allData) migrates.
MigratedKeys(allData) ==
  {key \in DOMAIN allData :
     ~(StartsWithBugsniffer(key) \/ allData[key].kind # "array")}

\* The array migrations, as a map from key to newFormat.
Migrations(allData, t) ==
  [key \in MigratedKeys(allData) |-> NewFormat(allData[key], t)]

\* handleUpdate calls migrateDataFormat, which awaits getStorageData(null).
MigrateDataFormatBegins(p) ==
  /\ build = "class"
  /\ pc[p] = "idle"
  /\ pc' = [pc EXCEPT ![p] = "get"]
  /\ req' = [req EXCEPT ![p] = Msg("migrateDataFormat", "")]
  /\ UNCHANGED <<storage, now, local, response>>
  /\ UNCHANGED <<v1vars, stream, csvars, envvars, race, classified, hashed, event>>

\* The read completes and the loop builds the migrations; with none to
\* write the function returns, else it awaits the first setStorageData.
MigrateDataFormatReads(p) ==
  /\ pc[p] = "get"
  /\ req[p].type = "migrateDataFormat"
  /\ LET migrations == Migrations(storage, now)
     IN  IF DOMAIN migrations = {}
         THEN /\ pc' = [pc EXCEPT ![p] = "idle"]
              /\ req' = [req EXCEPT ![p] = NoReq]
              /\ UNCHANGED local
         ELSE /\ pc' = [pc EXCEPT ![p] = "set"]
              /\ local' = [local EXCEPT
                              ![p] = [kind |-> "migrations",
                                      migrations |-> migrations]]
              /\ UNCHANGED req
  /\ UNCHANGED <<storage, now, response>>
  /\ UNCHANGED <<v1vars, stream, csvars, envvars, race, classified, hashed, event>>

\* One setStorageData(migration) completes; after the last one the
\* function returns.  The order of the entries is the store's.
MigrateDataFormatWrites(p, key) ==
  /\ pc[p] = "set"
  /\ req[p].type = "migrateDataFormat"
  /\ key \in DOMAIN local[p].migrations
  /\ storage' = StorageSet(storage, key, local[p].migrations[key])
  /\ LET rest == [k \in DOMAIN local[p].migrations \ {key} |->
                    local[p].migrations[k]]
     IN  IF DOMAIN rest = {}
         THEN /\ pc' = [pc EXCEPT ![p] = "idle"]
              /\ req' = [req EXCEPT ![p] = NoReq]
              /\ local' = [local EXCEPT ![p] = Absent]
         ELSE /\ local' = [local EXCEPT
                              ![p] = [kind |-> "migrations", migrations |-> rest]]
              /\ UNCHANGED <<pc, req>>
  /\ UNCHANGED <<now, response>>
  /\ UNCHANGED <<v1vars, stream, csvars, envvars, race, classified, hashed, event>>

\* What the store holds before the update: nothing, bare arrays of an
\* earlier version, or records.
MigrateValues ==
  {Absent, LegacyArray(<<"u3", "u1">>), LegacyArray(<<"u1", "u1">>),
   EnsureNewFormat(LegacyArray(<<"u2">>))}

MigrateInit ==
  /\ storage \in [MigrateKeys -> MigrateValues]
  /\ ProcsIdle
  /\ ClassBuild
  /\ NoPage

NextMigrate ==
  \/ Tick
  \/ MigrateDataFormatBegins("p1")
  \/ MigrateDataFormatReads("p1")
  \/ \E key \in MigrateKeys : MigrateDataFormatWrites("p1", key)

SpecMigrate == MigrateInit /\ [][NextMigrate]_vars

(***************************************************************************)
(* Properties.                                                             *)
(***************************************************************************)
IsPrefix(s, t) == Len(s) <= Len(t) /\ \A i \in 1..Len(s) : s[i] = t[i]

\* Handler invocation p has computed its record and awaits the write.
Writing(p, type) == pc[p] = "set" /\ req[p].type = type

\* The storage states the claims compare: the URL list of files, the hash
\* list of inlines, the sri list.
Lists(record) ==
  <<FileUrls(record.files), InlineHashes(record.inlines), record.sri>>

\* C1: merging the same batch into a domain record twice with
\* handleSaveJsUrls, sequentially, yields the same files URL list, inlines
\* hash list and sri list as merging it once: the record a merge has
\* produced is unchanged, in these lists, by a second merge of its batch at
\* any later time.
C1_MergeIdempotent ==
  \A p \in Procs :
    Writing(p, "SAVE_JS_URLS") =>
      \A t \in now..MaxTime :
        Lists(HandleSaveJsUrlsMerge(local[p], req[p], t)) = Lists(local[p])

\* C1 witness: a merge of a batch with a repeated URL, an inline and an sri
\* entry has run on a record holding other files, inlines and sri, and has
\* added to files and inlines.
C1_Witness ==
  \E p \in Procs :
    /\ Writing(p, "SAVE_JS_URLS")
    /\ Len(req[p].urls) >= 2 /\ Len(req[p].inlines) >= 1 /\ Len(req[p].sri) >= 1
    /\ Len(storage[req[p].domain].files) >= 1
    /\ Len(storage[req[p].domain].inlines) >= 1
    /\ Len(storage[req[p].domain].sri) >= 1
    /\ storage[req[p].domain].sri # req[p].sri
    /\ Len(local[p].files) > Len(storage[req[p].domain].files)
    /\ Len(local[p].inlines) > Len(storage[req[p].domain].inlines)

\* C2: in every reachable storage state, under every interleaving of
\* handleSaveJsUrls and saveJavaScriptFile, no two entries of a domain's
\* files have the same url.
C2_FilesUniqueByUrl ==
  \A d \in Domains :
    storage[d].kind = "object" => NoDup(FileUrls(storage[d].files))

\* C2 witness: two interleaved merges of the same URL, one of each kind,
\* both computed and neither written yet, over a record that already holds
\* two files.
C2_Witness ==
  \E p, q \in Procs, u \in ConcUrls :
    /\ Writing(p, "SAVE_JS_URLS") /\ Writing(q, "saveJavaScriptFile")
    /\ req[p].domain = req[q].domain
    /\ u \in Range(req[p].urls) /\ req[q].fileInfo.url = u
    /\ HasUrl(local[p].files, u) /\ HasUrl(local[q].files, u)
    /\ Len(storage[req[p].domain].files) >= 2

\* C3: in every reachable storage state no two entries of a domain's inlines
\* have the same hash, and a merge leaves every inline entry of the record
\* it read exactly as stored (same entry, same position): an entry of the
\* batch with a stored hash changes nothing.
C3_InlinesUnique ==
  \A d \in Domains : NoDup(InlineHashes(storage[d].inlines))

C3_MergeKeepsStored ==
  \A p \in Procs :
    (pc[p] = "get" /\ pc'[p] = "set" /\ req[p].type = "SAVE_JS_URLS")
      => IsPrefix(storage[req[p].domain].inlines, local'[p].inlines)

C3_InlineDedupByHash == []C3_InlinesUnique /\ [][C3_MergeKeepsStored]_vars

\* C3 witness: a merge whose batch carries hash h1 with data other than the
\* data stored for h1 has run, and its record keeps the stored entry.
C3_Witness ==
  \E p \in Procs : \E i \in 1..Len(req[p].inlines), j \in 1..Len(local[p].inlines) :
    /\ Writing(p, "SAVE_JS_URLS")
    /\ req[p].inlines[i].hash = local[p].inlines[j].hash
    /\ req[p].inlines[i].data # local[p].inlines[j].data
    /\ Len(storage[req[p].domain].inlines) >= 2

\* The retention cap of the installed background script.
Cap == IF build = "class" THEN MaxFiles ELSE MaxFilesV1

\* C4: from an empty record with cap N, after M > N sequential single-file
\* saves of distinct URLs with strictly increasing timestamps, the stored
\* files are exactly the N most recently saved URLs, for saveJavaScriptFile
\* and for saveJSFile.
C4_RetentionKeepsNewest ==
  \A d \in Domains :
    (pc["p1"] = "idle" /\ Len(stream[d]) > Cap) =>
      /\ Len(storage[d].files) = Cap
      /\ Range(FileUrls(storage[d].files)) =
           {stream[d][i].url : i \in (Len(stream[d]) - Cap + 1)..Len(stream[d])}

\* C4 witness: more saves than the cap have completed and the first URL of
\* the stream is no longer stored.
C4_Witness ==
  \E d \in Domains :
    /\ pc["p1"] = "idle" /\ Len(stream[d]) > Cap
    /\ ~HasUrl(storage[d].files, stream[d][1].url)

\* C5: after every write of a merge path, handleSaveJsUrls included, the
\* number of entries in the domain's files does not exceed the retention
\* cap.  handleSaveJsUrls never limits the list.
C5_FilesWithinCap ==
  \A d \in Domains :
    storage[d].kind = "object" => Len(storage[d].files) <= MaxFiles

\* C6: whenever saveJavaScriptFile limits files to the cap, the entry of
\* the file it has just added is in the record it writes.  The stable sort
\* puts the new entry after every stored entry with the same or a later
\* timestamp, and slice drops it.
C6_NewFileKept ==
  \A p \in Procs :
    Writing(p, "saveJavaScriptFile") =>
      HasUrl(local[p].files, req[p].fileInfo.url)

\* C8: when a batch carries SRI entries, the stored sri after the merge is
\* the union of the stored entries and the batch's.  The code replaces the
\* stored list by the batch's.
C8_SriUnion ==
  \A p \in Procs :
    (Writing(p, "SAVE_JS_URLS") /\ Len(req[p].sri) > 0) =>
      Range(local[p].sri) =
        Range(storage[req[p].domain].sri) \cup Range(req[p].sri)

\* A batch carries a csp when getCSP found a policy: a non-empty string
\* (null, and the empty content attribute, are no policy to the merge).
CarriesCsp(msg) == msg.csp # CspNull /\ msg.csp # ""

\* The handler invocation, if any, that completes a SAVE_JS_URLS write of a
\* batch carrying a csp to domain d in this step.
CspWriteStep(p, d) ==
  /\ Writing(p, "SAVE_JS_URLS") /\ pc'[p] = "idle"
  /\ req[p].domain = d /\ CarriesCsp(req[p])

\* C7: the stored csp is absent until a batch carries one, and every step
\* leaves it as it was except the write of a batch that carries a csp,
\* which sets it to that batch's csp: the stored csp is always that of the
\* most recent batch that carried one.
C7_StepLatestWins ==
  \A d \in Domains :
    IF \E p \in Procs : CspWriteStep(p, d)
    THEN \E p \in Procs : CspWriteStep(p, d) /\ storage'[d].csp = req[p].csp
    ELSE storage'[d].csp = storage[d].csp

C7_CspLatestWins ==
  /\ \A d \in Domains : storage[d].csp = CspUndefined
  /\ [][C7_StepLatestWins]_vars

\* C7 witness: policy-A is stored and the merge of a batch carrying
\* policy-B has run.
C7_Witness ==
  \E p \in Procs :
    /\ Writing(p, "SAVE_JS_URLS")
    /\ storage[req[p].domain].csp = "policy-A"
    /\ req[p].csp = "policy-B" /\ local[p].csp = "policy-B"

\* The entries of the bare array arr as the upgrade writes them.
LegacyEntries(arr) == [i \in 1..Len(arr) |-> FileEntry(arr[i], 0, "legacy")]

\* With one handler invocation at a time, storage still holds what p read:
\* p has read a bare array and computed its record.
UpgradesArray(p) ==
  pc[p] = "set" /\ storage[req[p].domain].kind = "array"

\* The legacy entries the operation of p does not record again itself.
LegacyLeft(p) ==
  LET entries == LegacyEntries(storage[req[p].domain].arr)
  IN  IF req[p].type = "saveJavaScriptFile"
      THEN SelectSeq(entries, LAMBDA e : e.url # req[p].fileInfo.url)
      ELSE entries

LegacyWritten(p) == SelectSeq(local[p].files, LAMBDA e : e.source = "legacy")

\* C9 as claimed: the first handleSaveJsUrls or saveJavaScriptFile on a bare
\* array writes an object whose files hold an entry tagged 'legacy' for
\* every URL of the array (but the one the operation records again), in
\* the array's order.
C9_LegacyAllKept ==
  \A p \in Procs :
    UpgradesArray(p) =>
      local[p].kind = "object" /\ LegacyWritten(p) = LegacyLeft(p)

\* C9 amended: so it is for handleSaveJsUrls, and for saveJavaScriptFile
\* while those entries and the new file fit the cap; beyond the cap
\* saveJavaScriptFile keeps the new file and the first cap - 1 of them.
C9_LegacyKeptToCap ==
  \A p \in Procs :
    UpgradesArray(p) =>
      /\ local[p].kind = "object"
      /\ LegacyWritten(p) =
           IF req[p].type = "saveJavaScriptFile" /\ Len(LegacyLeft(p)) + 1 > MaxFiles
           THEN SubSeq(LegacyLeft(p), 1, MaxFiles - 1)
           ELSE LegacyLeft(p)

\* C9 witness: saveJavaScriptFile has upgraded an array of two URLs, one of
\* them the URL it records.
C9_Witness ==
  \E p \in Procs :
    /\ UpgradesArray(p) /\ req[p].type = "saveJavaScriptFile"
    /\ Len(storage[req[p].domain].arr) >= 2
    /\ req[p].fileInfo.url \in Range(storage[req[p].domain].arr)
    /\ Len(LegacyWritten(p)) >= 1

\* The save timers that are pending.
PendingTimers == {i \in 1..Len(timers) : timers[i] = "pending"}

\* Timer i fires in this step.
TimerFires(i) == timers[i] = "pending" /\ timers'[i] = "fired"

SomeTimerFires == \E i \in 1..Len(timers) : TimerFires(i)

C10_OnePending == Cardinality(PendingTimers) <= 1

\* A cancelled timer stays cancelled, and the timer that fires is the one
\* the last scheduleSave armed.
C10_OnlyLatestFires ==
  /\ \A i \in 1..Len(timers) : timers[i] = "cancelled" => timers'[i] = "cancelled"
  /\ \A i \in 1..Len(timers) : TimerFires(i) => i = Len(timers) /\ i = saveTimer

\* C10 as claimed: at most one save timer is pending at any time, a
\* cancelled timer never fires, and the triggers since the last firing
\* produce exactly one SAVE_JS_URLS send: none before their timer fires, one
\* when it does.
C10_BurstSendsOne ==
  /\ []C10_OnePending
  /\ [][/\ C10_OnlyLatestFires
        /\ Len(outbox') = Len(outbox) + (IF SomeTimerFires THEN 1 ELSE 0)]_vars

\* C10 amended: at most one save timer is pending at any time, a cancelled
\* timer never fires, and the triggers since the last firing produce no
\* send before their timer fires and, when it does, one send if
\* chrome.runtime.sendMessage is available and, in content.js, the URL set
\* is not empty; otherwise none.
C10_BurstSendsAtMostOne ==
  /\ []C10_OnePending
  /\ [][/\ C10_OnlyLatestFires
        /\ Len(outbox') =
             Len(outbox) + (IF SomeTimerFires /\ CanSend THEN 1 ELSE 0)]_vars

\* C10 witness: three triggers in a row, the first two timers cancelled, the
\* third fired, and one message sent.
C10_Witness ==
  /\ Len(timers) >= 3
  /\ timers[1] = "cancelled" /\ timers[2] = "cancelled" /\ timers[3] = "fired"
  /\ Len(outbox) = 1

\* The message sent in this step, if one is, carries the urls and inlines
\* the content script holds in this step.
C11_SendsWholeSet ==
  Len(outbox') > Len(outbox) =>
    /\ outbox'[Len(outbox')].urls = csUrls
    /\ outbox'[Len(outbox')].inlines = csInlines

\* C11 as claimed: with timers that fire, once a save is scheduled a
\* SAVE_JS_URLS message is eventually sent unless destroy is called, and the
\* message carries the urls and inlines as they are when the timer fires.
C11_SaveEventuallySent ==
  /\ \A n \in 0..MaxTimers :
       (PendingTimers # {} /\ Len(outbox) = n) ~> (Len(outbox) > n \/ destroyed)
  /\ [][C11_SendsWholeSet]_vars

\* C11 amended: the message is eventually sent unless destroy is called,
\* chrome.runtime.sendMessage is lost or, in content.js, the URL set is
\* empty; it carries the urls and inlines as they are when the timer fires.
C11_SaveSentIfSendable ==
  /\ \A n \in 0..MaxTimers :
       (PendingTimers # {} /\ Len(outbox) = n)
         ~> (Len(outbox) > n \/ destroyed \/ ~CanSend)
  /\ [][C11_SendsWholeSet]_vars

\* C11 witness: after two triggers the message sent holds both URLs and an
\* inline script, all the content script has.
C11_Witness ==
  /\ Len(timers) >= 2
  /\ Len(outbox) = 1
  /\ Len(csUrls) = 2 /\ outbox[1].urls = csUrls
  /\ Len(csInlines) >= 1 /\ outbox[1].inlines = csInlines
  /\ ~destroyed

\* C12: once destroy() has run, the content script has no observing
\* MutationObserver and no pending save timer, and it sends no
\* SAVE_JS_URLS message.
C12_DestroyReleases ==
  /\ [](destroyed => (~observer /\ PendingTimers = {}))
  /\ [][destroyed => Len(outbox') <= Len(outbox)]_vars

\* C13: while bugsniffer_enabled is false, no DOM mutation, network
\* completion or SAVE_JS_URLS message leads to a write of a domain record
\* (the flag changes only between handler runs, so a write made while it is
\* false belongs to a handler that started while it was false).
C13_DisabledWritesNothing ==
  [][~bugsniffer_enabled => storage' = storage]_vars

\* Every batch on its way to the background or being merged there is a
\* prefix of what the content script holds.
C17_BatchesWithinSet ==
  /\ \A i \in 1..Len(outbox) :
       IsPrefix(outbox[i].urls, csUrls) /\ IsPrefix(outbox[i].inlines, csInlines)
  /\ \A p \in Procs :
       req[p].type = "SAVE_JS_URLS" =>
         IsPrefix(req[p].urls, csUrls) /\ IsPrefix(req[p].inlines, csInlines)

\* A batch fails in this step: its message is lost, or the store refuses the
\* write of its merge.
BatchFails ==
  \/ Len(outbox') < Len(outbox) /\ pc' = pc
  \/ \E p \in Procs :
       Writing(p, "SAVE_JS_URLS") /\ pc'[p] = "idle" /\ ~storageOk

\* C17: when sending or persisting a batch fails, the urls and inlines of
\* the content script are unchanged, and the next SAVE_JS_URLS message it
\* sends contains every URL and inline of the failed batch: the content
\* script only ever appends to them, every batch is a prefix of them, and
\* every message carries all of them.
C17_FailedBatchRetried ==
  /\ []C17_BatchesWithinSet
  /\ [][/\ BatchFails => (csUrls' = csUrls /\ csInlines' = csInlines)
        /\ IsPrefix(csUrls, csUrls') /\ IsPrefix(csInlines, csInlines')
        /\ C11_SendsWholeSet]_vars

\* C17 witness: the background has answered a batch that the store refused
\* (the record is still absent), and a later message carries everything the
\* content script holds.
C17_Witness ==
  /\ pc["p1"] = "idle" /\ response["p1"].sent
  /\ storage[PageDomain].kind = "absent"
  /\ Len(timers) >= 2
  /\ Len(outbox) >= 1
  /\ Len(csUrls) = 2 /\ outbox[Len(outbox)].urls = csUrls
  /\ Len(csInlines) = 1 /\ outbox[Len(outbox)].inlines = csInlines

\* C18: when the store refuses the write of a SAVE_JS_URLS merge, the
\* response to the sender is {success: false}.
C18_FailedWriteReported ==
  [][\A p \in Procs :
       (Writing(p, "SAVE_JS_URLS") /\ pc'[p] = "idle" /\ ~storageOk)
         => response'[p] = Response(FALSE)]_vars

\* C14: under sequential execution a handleSaveJsUrls merge never removes a
\* stored entry: the record about to be written holds every file URL and
\* every inline hash of the record in the store.
C14_MergeKeepsStored ==
  \A p \in Procs :
    Writing(p, "SAVE_JS_URLS") =>
      Keeps(local[p], storage[req[p].domain])

\* C14 witness: a merge over a record that holds a file and an inline has
\* added a file and an inline and is about to be written.
C14_Witness ==
  /\ Writing("p1", "SAVE_JS_URLS")
  /\ storage[req["p1"].domain].kind = "object"
  /\ Len(storage[req["p1"].domain].files) >= 1
  /\ Len(storage[req["p1"].domain].inlines) >= 1
  /\ Len(local["p1"].files) > Len(storage[req["p1"].domain].files)
  /\ Len(local["p1"].inlines) > Len(storage[req["p1"].domain].inlines)

\* A write that is about to remove a stored URL or inline hash.
DropsStored(p) ==
  /\ Writing(p, "SAVE_JS_URLS")
  /\ ~Keeps(local[p], storage[req[p].domain])

\* C15: a lost-update window exists between the read and the write of a
\* merge: a pending write removes a stored entry exactly in the window, that
\* is only when another merge was written after its own read (the witness
\* is the interleaving of two merges that both read before either writes,
\* after which the record lacks a URL that a completed merge added).
C15_LossOnlyInWindow ==
  \A p \in Procs : DropsStored(p) => race.status[p] = "stale"

\* C15 witness: both merges are complete, q wrote first and p, which had
\* read before q wrote, wrote after it: a write removed an entry, and the
\* record lacks the URL and the inline hash that q's completed merge added.
C15_Witness ==
  /\ \A p \in Procs : pc[p] = "idle"
  /\ race.lost
  /\ race.status["p1"] = "clean" /\ race.status["p2"] = "overtaken"
  /\ storage["a.com"].kind = "object"
  /\ BatchUrls(RaceBatch("p2")) \subseteq StoredUrls(storage["a.com"])
  /\ BatchUrls(RaceBatch("p1")) \cap StoredUrls(storage["a.com"]) = {}
  /\ BatchHashes(RaceBatch("p1")) \cap StoredHashes(storage["a.com"]) = {}

\* Every writer has completed a merge with no interleaving since the latest
\* lost update, and none is in flight.
AllRemerged ==
  \A p \in Procs : pc[p] = "idle" /\ p \in race.remerged

\* The record of the domain holds every URL and inline hash of both batches.
HoldsBothBatches ==
  \A p \in Procs :
    /\ BatchUrls(RaceBatch(p)) \subseteq StoredUrls(storage[RaceBatch(p).domain])
    /\ BatchHashes(RaceBatch(p)) \subseteq
         StoredHashes(storage[RaceBatch(p).domain])

\* C16: after a lost update, once each writer has merged its full batch
\* again with handleSaveJsUrls with no interleaving, the record contains
\* every URL and inline hash of both batches.
C16_RemergeRestores ==
  (race.lost /\ AllRemerged) => HoldsBothBatches

\* C16 witness: an update was lost, both writers have since merged again
\* without interleaving, and the record holds both batches.
C16_Witness ==
  /\ race.lost
  /\ AllRemerged
  /\ HoldsBothBatches
  /\ Len(storage["a.com"].files) >= 2
  /\ Len(storage["a.com"].inlines) = 2

\* A clear for domain d completes in this step.
ClearCompletes(p, d) ==
  /\ pc[p] = "remove" /\ req[p].domain = d
  /\ pc'[p] = "idle"

\* A merge of handleSaveJsUrls, saveJavaScriptFile or saveJSFile is written
\* in this step.
MergeCompletes(p) ==
  /\ pc[p] = "set"
  /\ pc'[p] = "idle"

\* C19: a domain's record becomes absent from storage only through a clear
\* for that same domain: no merge removes a record, and a clear for domain
\* d leaves the record of every other domain unchanged.
C19_AbsentOnlyByClear ==
  [][\A d \in DOMAIN storage :
       /\ (storage[d] # Absent /\ storage'[d] = Absent)
            => \E p \in Procs : ClearCompletes(p, d)
       /\ (\E p \in Procs : MergeCompletes(p))
            => (storage[d] # Absent => storage'[d] # Absent)
       /\ (\E p \in Procs : ClearCompletes(p, d))
            => \A e \in DOMAIN storage \ {d} : storage'[e] = storage[e]]_vars

\* C19 witness: a clear for a.com has been answered and its record is
\* absent, while b.com holds the record a merge wrote before.
C19_Witness ==
  /\ storage["a.com"] = Absent
  /\ storage["b.com"].kind = "object"
  /\ \E p \in Procs : pc[p] = "idle" /\ response[p] = Response(TRUE)

\* The path of the URL, ignoring query and fragment, ends in .js or .mjs
\* case-insensitively, or the query has a jsModule or module parameter.
JsSuffixOrModuleParam(urlObj) ==
  \/ TestJsSuffix(urlObj.pathname)
  \/ "jsModule" \in urlObj.searchParams
  \/ "module" \in urlObj.searchParams

\* C20: for every URL, isJavaScriptLike returns true if and only if the
\* path, ignoring query and fragment, ends in .js or .mjs
\* case-insensitively, or the query contains a jsModule or module
\* parameter; in particular it returns false for /data.json and
\* /a.js/img.png without such a parameter.
C20_JsLikeIffSuffixOrParam ==
  classified.fn = "isJavaScriptLike" =>
    (classified.result <=> JsSuffixOrModuleParam(classified.url))

\* The schemes no candidate may have.
BlockedSchemes == {"data:", "javascript:", "chrome-extension:"}

\* C21: no candidate whose scheme is data:, javascript: or an
\* extension-internal scheme is normalised to a non-null URL, so no such URL
\* is ever in the content script's candidate set or in a persisted record.
C21_NoBlockedScheme ==
  /\ \A i \in 1..Len(csUrls) :
       ParseUrl(csUrls[i]).protocol \notin BlockedSchemes
  /\ \A d \in DOMAIN storage :
       \A u \in StoredUrls(storage[d]) :
         ParseUrl(u).protocol \notin BlockedSchemes

\* 31 * h + c wrapped to a signed 32-bit integer, by long multiplication.
WrapFoldStep(h, c) ==
  LET lo == 31 * h[2] + c
      hi == (31 * h[1] + (lo \div 65536)) % 65536
  IN  <<IF hi >= 32768 THEN hi - 65536 ELSE hi, lo % 65536>>

\* The left-to-right fold of WrapFoldStep over s, from 0.
RECURSIVE WrapFold(_, _)
WrapFold(h, s) ==
  IF s = <<>> THEN h ELSE WrapFold(WrapFoldStep(h, Head(s)), Tail(s))

\* The pair stands for an integer of [-2^31, 2^31 - 1].
IsInt32(x) == x[1] \in -32768..32767 /\ x[2] \in 0..65535

\* The integer a signed 32-bit pair stands for.
Int32Value(x) == x[1] * 65536 + x[2]

\* C22: for every string over the alphabet, generateHash returns the
\* left-to-right fold h := (31*h + charCode) wrapped to a signed 32-bit
\* integer at every step, starting from 0: the result is within
\* [-2^31, 2^31 - 1], equal inputs give equal results, and the empty string
\* gives 0.
C22_HashIsWrappedFold ==
  hashed.called =>
    /\ hashed.result = WrapFold(<<0, 0>>, hashed.str)
    /\ IsInt32(hashed.result)
    /\ \A s \in SeqsUpTo(CharCodes, MaxStr) :
         s = hashed.str => GenerateHash(s) = hashed.result
    /\ hashed.str = <<>> => Int32Value(hashed.result) = 0

\* C22 witness: generateHash was called on a string of five characters on
\* which 31*h + c passes 2^32, and returned a negative number.
C22_Witness ==
  /\ hashed.called
  /\ Len(hashed.str) = 5
  /\ hashed.str[1] = 65535
  /\ IsInt32(hashed.result)
  /\ Int32Value(hashed.result) < 0

\* The sequence s reversed.
Reverse(s) == [i \in 1..Len(s) |-> s[Len(s) + 1 - i]]

\* The file URLs and inline hashes of a record, as sets.
EntrySets(record) == <<StoredUrls(record), StoredHashes(record)>>

\* The record after batch a and then batch b are merged into value.
MergedInOrder(value, a, b) ==
  HandleSaveJsUrlsMerge(HandleSaveJsUrlsMerge(value, a, now), b, now)

\* C23: for any two batches A and B merged sequentially into the same
\* starting record with handleSaveJsUrls, the resulting set of file URLs and
\* the resulting set of inline hashes are the same whether A is merged
\* before B or B before A, and reordering the URLs inside a batch does not
\* change the resulting URL set.  A is the batch of the pending merge, the
\* starting record is the stored one.
C23_MergeOrderFree ==
  \A p \in Procs :
    Writing(p, "SAVE_JS_URLS") =>
      LET start == storage[req[p].domain]
          a == req[p]
      IN  /\ \A b \in CommuteBatches :
               EntrySets(MergedInOrder(start, a, b)) =
                 EntrySets(MergedInOrder(start, b, a))
          /\ StoredUrls(HandleSaveJsUrlsMerge(
                          start, [a EXCEPT !.urls = Reverse(a.urls)], now))
               = StoredUrls(local[p])

\* C23 witness: a batch of two URLs and an inline is being merged into a
\* record that holds a file, and for some other batch the two merge orders
\* give different lists of files and of inlines.
C23_Witness ==
  /\ Writing("p1", "SAVE_JS_URLS")
  /\ Len(req["p1"].urls) = 2 /\ req["p1"].urls[1] # req["p1"].urls[2]
  /\ Len(req["p1"].inlines) = 1
  /\ StoredUrls(storage[req["p1"].domain]) # {}
  /\ \E b \in CommuteBatches :
       LET ab == MergedInOrder(storage[req["p1"].domain], req["p1"], b)
           ba == MergedInOrder(storage[req["p1"].domain], b, req["p1"])
       IN  /\ FileUrls(ab.files) # FileUrls(ba.files)
           /\ InlineHashes(ab.inlines) # InlineHashes(ba.inlines)

\* A mutation callback runs in this step: the observer is connected, and
\* neither the start of the script nor its load timer is what acts.
MutationStep ==
  /\ observer /\ observer'
  /\ csPc' = csPc /\ load' = load /\ outbox' = outbox
  /\ runtime' = runtime /\ destroyed' = destroyed

\* C24: a save is scheduled after a DOM-mutation batch only if the batch
\* added to the candidate set a URL or an inline hash that was not already
\* in it; a batch that inserts only elements whose URLs are already known
\* or are rejected by the classifier schedules no save.
C24_SaveOnlyIfNew ==
  [][(MutationStep /\ Len(timers') > Len(timers)) =>
       \/ Range(csUrls') # Range(csUrls)
       \/ Range(InlineHashes(csInlines')) # Range(InlineHashes(csInlines))]_vars

\* C25: whenever the mutation observer adds a new URL to the candidate set,
\* whether the matching element is the inserted node itself or a descendant
\* of an inserted container, a save is scheduled in the same callback.
C25_NewUrlSchedulesSave ==
  [][(MutationStep /\ Range(csUrls') # Range(csUrls)) =>
       /\ Len(timers') = Len(timers) + 1
       /\ timers'[Len(timers')] = "pending"]_vars

\* metadata.totalInlines counts the inlines of the record; a record that
\* saveJavaScriptFile created has neither the field nor inlines.
InlinesCounted(record) ==
  \/ record.metadata.totalInlines = Len(record.inlines)
  \/ record.metadata.totalInlines = -1 /\ record.inlines = <<>>

\* C26: in every record written by a merge, metadata.totalFiles equals the
\* number of entries in files and metadata.totalInlines equals the number of
\* entries in inlines of that same written record, including writes in
\* which saveJavaScriptFile truncates files to the cap.
C26_TotalsMatchLists ==
  \A p \in Procs :
    (Writing(p, "SAVE_JS_URLS") \/ Writing(p, "saveJavaScriptFile")) =>
      /\ local[p].metadata.totalFiles = Len(local[p].files)
      /\ InlinesCounted(local[p])

\* C27: every SAVE_JS_URLS message built by a content script carries an
\* inlines list with pairwise-distinct hashes and no entry for a body that
\* is empty after trimming, including when the page holds two inline
\* scripts with identical bodies and when inline collection runs again
\* after mutations.
C27_MessageInlinesDistinct ==
  \A i \in 1..Len(outbox) :
    /\ NoDup(InlineHashes(outbox[i].inlines))
    /\ \A j \in 1..Len(outbox[i].inlines) : outbox[i].inlines[j].data # ""

\* C28: a domain record is created only by a discovery: handleSaveJsUrls
\* applied to a domain with no stored record and a batch with no URLs and
\* no inline entries leaves that domain absent from storage.
C28_EmptyBatchCreatesNothing ==
  [][\A p \in Procs :
       (/\ Writing(p, "SAVE_JS_URLS") /\ pc'[p] = "idle"
        /\ req[p].urls = <<>> /\ req[p].inlines = <<>>
        /\ storage[req[p].domain] = Absent)
         => storage'[req[p].domain] = Absent]_vars

\* The get callback of saveJSFile or of the SAVE_JS_URLS listener runs in
\* this step.
GetCallbackRuns(p) ==
  /\ pc[p] = "get" /\ pc'[p] # "get"
  /\ req[p].type \in {"saveJSFile", "SAVE_JS_URLS listener"}

\* C29: in background.js a domain record persisted in either shape (the
\* bare URL array of the SAVE_JS_URLS listener, the {files, lastCrawl}
\* object of saveJSFile) is readable by both writers: after any sequence of
\* the two operations on one domain, each operation completes its write
\* without error and every URL already stored is still stored.
C29_BothShapesReadable ==
  [][\A p \in Procs :
       /\ GetCallbackRuns(p) =>
            /\ pc'[p] = "set"
            /\ StoredUrls(storage[req[p].domain]) \subseteq StoredUrls(local'[p])
       /\ \A d \in DOMAIN storage :
            StoredUrls(storage[d]) \subseteq StoredUrls(storage'[d])]_vars

\* C30: in background.js every URL that storeJS accepts and marks as seen
\* in globalJSFiles[domain] is eventually present in that domain's persisted
\* files, under every interleaving of the get and set callbacks of
\* saveJSFile: once no callback is outstanding, the files of the domain hold
\* every URL of globalJSFiles[domain].  Here no more URLs are seen than the
\* cap keeps, and nothing is cleared.
C30_SeenIsPersisted ==
  (\A p \in Procs : pc[p] = "idle") =>
    \A d \in DOMAIN globalJSFiles :
      \A u \in globalJSFiles[d] : HasUrl(storage[d].files, u)

\* The URL every record of SpecClear holds at the start, and that no merge
\* of SpecClear discovers again.
StoredBeforeClear == "u3"

\* C31: after a clear for domain d has completed, the record of d holds no
\* entry that was stored before the clear and has not been discovered again
\* after it, also when a merge for d had read the record before the clear
\* and writes it after the clear: the write that follows the clear, on the
\* absent record, brings back no such entry.
C31_ClearedStaysCleared ==
  [][\A d \in ClearDomains :
       storage[d] = Absent =>
         StoredBeforeClear \notin StoredUrls(storage'[d])]_vars

\* C32: in background.js the first response delivered to the sender of a
\* GET_JS_FILES message is {success: true, files, count, domain} built from
\* the stored record of the requested domain: while the storage read is
\* outstanding no response has been sent, and the step of the get callback
\* delivers the files of the record.
C32_FirstResponseIsFiles ==
  [][\A p \in Procs :
       /\ (pc'[p] = "get" /\ req'[p].type = "GET_JS_FILES")
            => ~response'[p].sent
       /\ (pc[p] = "get" /\ req[p].type = "GET_JS_FILES" /\ pc'[p] = "idle")
            => response'[p] =
                 FilesResponse(req[p].domain,
                               EntryFiles(storage[req[p].domain]))]_vars

\* The message has no domain although its type needs one, or its type is
\* none of those handleMessage handles.
Malformed(message) ==
  \/ message.type \in {"SAVE_JS_URLS", "GET_DOMAIN_DATA", "CLEAR_DOMAIN_DATA"}
       /\ message.domain = ""
  \/ message.type \notin {"SAVE_JS_URLS", "GET_DOMAIN_DATA", "CLEAR_DOMAIN_DATA"}

\* C33: a SAVE_JS_URLS, GET_DOMAIN_DATA or CLEAR_DOMAIN_DATA message with a
\* missing domain, and a message of unknown type, each receive a
\* {success: false} response and leave every stored record unchanged: the
\* step that handles such a message sends the response, starts no storage
\* operation and changes no record.
C33_MalformedRejected ==
  [][\A p \in Procs, message \in ErrorMessages :
       (Malformed(message) /\ HandleMessage(p, message)) =>
         /\ response'[p].sent /\ ~response'[p].success
         /\ pc'[p] = "idle"
         /\ storage' = storage]_vars

\* C33 witness: a message without a domain has been answered
\* {success: false} by an idle handler while the record of a.com, written
\* by an earlier merge, is in place.
C33_Witness ==
  /\ storage["a.com"].kind = "object"
  /\ \E p \in Procs :
       /\ pc[p] = "idle"
       /\ response[p] = ErrorResponse("Domain is required")

\* The event delivered last is a main-frame commit for tab t or the
\* removal of tab t.
Discards(e, t) ==
  /\ e.tabId = t
  /\ \/ e.type = "onRemoved"
     \/ e.type = "onCommitted" /\ e.frameId = 0

\* A call of storeJS for tab t.
StoreJSFor(t) == \E p \in Procs, u \in ConcUrls : StoreJS(p, u, t, "network")

\* C34: in background.js, after a main-frame navigation commit for tab t
\* or the removal of tab t, tabJSFiles holds no entry for t until the next
\* storeJS for t; a sub-frame commit and any event for another tab leave
\* t's entry unchanged, and none of these events changes globalJSFiles or
\* storage.
C34_TabCacheDiscarded ==
  [][\A t \in NavTabs :
       /\ (t \notin DOMAIN tabJSFiles /\ t \in DOMAIN tabJSFiles')
            => StoreJSFor(t)
       /\ event' # event =>
            /\ Discards(event', t) => t \notin DOMAIN tabJSFiles'
            /\ ~Discards(event', t) =>
                 /\ (t \in DOMAIN tabJSFiles') = (t \in DOMAIN tabJSFiles)
                 /\ MapGet(tabJSFiles', t) = MapGet(tabJSFiles, t)
            /\ globalJSFiles' = globalJSFiles
            /\ storage' = storage]_vars

\* C34 witness: u2 was seen and is stored, the entry of the tab that saw it
\* has been discarded, and tab 2 keeps its entry.
C34_Witness ==
  /\ event = [type |-> "onCommitted", tabId |-> 1, frameId |-> 0]
  /\ 1 \notin DOMAIN tabJSFiles
  /\ 2 \in DOMAIN tabJSFiles /\ tabJSFiles[2] = {"u1"}
  /\ MapGet(globalJSFiles, "a.com") = {"u1", "u2"}
  /\ storage["a.com"].kind = "object"
  /\ HasUrl(storage["a.com"].files, "u2")

\* A run of migrateDataFormat ends in this step.
MigrationEnds(p) ==
  /\ req[p].type = "migrateDataFormat"
  /\ pc'[p] = "idle"

\* C35: migrateDataFormat, run with no concurrent writer, replaces every
\* stored value that is a bare array under a key not starting with
\* 'bugsniffer_' by an object record whose files list has the same URLs in
\* the same order, leaves every other key unchanged, and a second run
\* changes nothing: every value it changes was such an array and becomes
\* such a record, when it ends no such array is left, and a run that finds
\* none writes nothing.
C35_MigrationUpgradesArrays ==
  [][\A key \in DOMAIN storage :
       /\ storage'[key] # storage[key] =>
            /\ storage[key].kind = "array"
            /\ key # "bugsniffer_x"
            /\ storage'[key].kind = "object"
            /\ FileUrls(storage'[key].files) = storage[key].arr
       /\ (\E p \in Procs : MigrationEnds(p)) =>
            (key # "bugsniffer_x" => storage'[key].kind # "array")
       /\ (\A k \in DOMAIN storage :
             k = "bugsniffer_x" \/ storage[k].kind # "array")
            => storage' = storage]_vars

\* C35 witness: a run has ended; a.com, which held the array [u3, u1],
\* holds the migrated record with u3 before u1, and the array under the
\* extension's own key is still an array.
C35_Witness ==
  /\ pc["p1"] = "idle"
  /\ storage["a.com"].kind = "object"
  /\ Len(storage["a.com"].files) = 2
  /\ storage["a.com"].files[1].url = "u3"
  /\ storage["a.com"].files[1].source = "legacy_migration"
  /\ storage["b.com"].kind = "object"
  /\ storage["bugsniffer_x"].kind = "array"

====
